---- MODULE Spec2Model ----
(***************************************************************************)
(* Verification model of graphtotex: the expression preparer (normalise,   *)
(* classify, validate, compile), the numeric coercion of evaluator         *)
(* results, the adaptive curve sampler, the implicit contour extractor,    *)
(* the two TikZ transpilers, the 2D exporter and the 3D viewport.          *)
(*                                                                         *)
(* Texts are sequences of one-character strings.  A nullable value is a    *)
(* sequence: <<>> is null, <<v>> is the value v.                           *)
(***************************************************************************)
EXTENDS Integers, Sequences, FiniteSets, TLC

VARIABLES
    rawInput,     \* the text of the entry being edited (Expression.rawInput)
    prepared,     \* prepareMath(rawInput): the 2D PreparedMath
    prepared3D,   \* prepareMath3D(rawInput): the 3D PreparedSurfaceMath
    padLeft,      \* how many more characters may still be typed (model bound)
    tree,         \* an AST handed to validateNode
    treeDepth,    \* the number of nodes wrapped around the leaf of tree
    treePrepared, \* what the three preparers make of tree
    evalCall,     \* the last call of an evaluator closure and what it did
    sampling,     \* the last call of sampleExpression and what it returned
    contours,     \* the last call of sampleImplicitContours and what it returned
    converted,    \* an AST, what the two transpilers make of it and its lines in the 2D export
    exported,     \* the 2D entries, the viewport and the document exported from them
    viewport3D,   \* the 3D viewport the App keeps
    viewport2D,   \* the 2D viewport the App keeps
    frame3D,      \* the entries and settings of the 3D canvas and the frame painted from them
    domains,      \* the bounds typed into an entry and what the two bound parsers return
    drag,         \* the mouse drag on a canvas: the listeners, refs and viewport it works with
    lists         \* the lists of 2D and 3D entries the App keeps

prepVars == <<rawInput, prepared, prepared3D, padLeft>>
treeVars == <<tree, treeDepth, treePrepared>>
uiVars == <<domains, drag, lists>>
appVars == <<viewport2D, frame3D, uiVars>>
outVars == <<contours, converted, exported, viewport3D, appVars>>
callVars == <<evalCall, sampling, outVars>>
vars == <<rawInput, prepared, prepared3D, padLeft, tree, treeDepth, treePrepared,
          evalCall, sampling, contours, converted, exported, viewport3D, viewport2D, frame3D,
          domains, drag, lists>>

(***************************************************************************)
(* Text helpers                                                            *)
(***************************************************************************)
Null == <<>>
Some(v) == <<v>>

SubStr(s, a, b) == [k \in 1..(IF b >= a THEN b - a + 1 ELSE 0) |-> s[a + k - 1]]

Letters == {"x", "y", "l", "n", "o", "g"}
Digits == {"0", "1", "2"}
IsAlpha(c) == c \in Letters
IsDigit(c) == c \in Digits
\* JavaScript \w: a letter, a digit or the underscore
IsWordChar(c) == IsAlpha(c) \/ IsDigit(c)
IsWhitespace(c) == c = " "

RECURSIVE TrimStart(_)
TrimStart(s) ==
    IF s # <<>> /\ IsWhitespace(s[1]) THEN TrimStart(Tail(s)) ELSE s

RECURSIVE TrimEnd(_)
TrimEnd(s) ==
    IF s # <<>> /\ IsWhitespace(s[Len(s)]) THEN TrimEnd(SubStr(s, 1, Len(s) - 1)) ELSE s

\* String.prototype.trim
Trim(s) == TrimEnd(TrimStart(s))

\* replace(/\*\*/, '^') without the g flag: the first match only
RECURSIVE ReplacePow_FirstOnly(_)
ReplacePow_FirstOnly(s) ==
    IF Len(s) < 2 THEN s
    ELSE IF s[1] = "*" /\ s[2] = "*" THEN <<"^">> \o Tail(Tail(s))
    ELSE <<s[1]>> \o ReplacePow_FirstOnly(Tail(s))

\* replace(/\*\*/g, '^'): leftmost non-overlapping matches
RECURSIVE ReplacePow(_)
ReplacePow(s) ==
    IF Len(s) < 2 THEN s
    ELSE IF s[1] = "*" /\ s[2] = "*" THEN <<"^">> \o ReplacePow(Tail(Tail(s)))
    ELSE <<s[1]>> \o ReplacePow(Tail(s))

\* index of the first non-whitespace character at or after i (Len(s)+1 if none)
RECURSIVE SkipSpaces(_, _)
SkipSpaces(s, i) ==
    IF i <= Len(s) /\ IsWhitespace(s[i]) THEN SkipSpaces(s, i + 1) ELSE i

\* does /\bln\s*\(/ match at index i of s ?
LnMatchAt(s, i) ==
    /\ i + 1 <= Len(s)
    /\ s[i] = "l" /\ s[i + 1] = "n"
    /\ (i = 1 \/ ~IsWordChar(s[i - 1]))
    /\ LET j == SkipSpaces(s, i + 2) IN j <= Len(s) /\ s[j] = "("

\* replace(/\bln\s*\(/g, 'log(')
RECURSIVE ReplaceLnFrom(_, _)
ReplaceLnFrom(s, i) ==
    IF i > Len(s) THEN <<>>
    ELSE IF LnMatchAt(s, i)
         THEN <<"l", "o", "g", "(">> \o ReplaceLnFrom(s, SkipSpaces(s, i + 2) + 1)
         ELSE <<s[i]>> \o ReplaceLnFrom(s, i + 1)

ReplaceLn(s) == ReplaceLnFrom(s, 1)

normalizeInput(raw) == ReplaceLn(ReplacePow(Trim(raw)))

\* String.prototype.split('='): the pieces between the equals signs
RECURSIVE SplitFrom(_, _, _)
SplitFrom(s, i, cur) ==
    IF i > Len(s) THEN <<cur>>
    ELSE IF s[i] = "=" THEN <<cur>> \o SplitFrom(s, i + 1, <<>>)
    ELSE SplitFrom(s, i + 1, Append(cur, s[i]))

SplitEquals(s) == SplitFrom(s, 1, <<>>)

\* /\by\b/.test(s)
UsesY(s) ==
    \E i \in 1..Len(s) :
        /\ s[i] = "y"
        /\ (i = 1 \/ ~IsWordChar(s[i - 1]))
        /\ (i = Len(s) \/ ~IsWordChar(s[i + 1]))

Includes(s, c) == \E i \in 1..Len(s) : s[i] = c

(***************************************************************************)
(* math.parse: the expression parser the preparer calls.  It is the        *)
(* mathjs expression grammar restricted to the characters of this model:   *)
(* letters, digits, + - * ^ ! ( ) [ ] , ? : and blanks.  The preparer      *)
(* never hands it a text that holds an equals sign (prepareMath splits on  *)
(* it, prepareMath3D rejects it), so the assignment and comparison levels  *)
(* of the grammar are left out and '=' is a character it cannot read.      *)
(*                                                                         *)
(* An AST node is [type, name, kids]: name is the symbol name, the         *)
(* constant's digits, the operator or the called function's name; kids are *)
(* the children in the order MathNode.forEach visits them (a FunctionNode  *)
(* lists its fn SymbolNode first, then its arguments).                     *)
(***************************************************************************)
Node(type, name, kids) == [type |-> type, name |-> name, kids |-> kids]
NoNode == Node("", <<>>, <<>>)

Delimiters1 == {"+", "-", "*", "^", "!", "(", ")", "[", "]", ",", "?", ":"}

EndToken == [tt |-> "END", tok |-> <<>>]

\* end index of the run of characters satisfying a class, starting at i
RECURSIVE WordEnd(_, _)
WordEnd(s, i) ==
    IF i + 1 <= Len(s) /\ IsWordChar(s[i + 1]) THEN WordEnd(s, i + 1) ELSE i

RECURSIVE DigitsEnd(_, _)
DigitsEnd(s, i) ==
    IF i + 1 <= Len(s) /\ IsDigit(s[i + 1]) THEN DigitsEnd(s, i + 1) ELSE i

\* getToken, applied until the end of the text
RECURSIVE TokenizeFrom(_, _)
TokenizeFrom(s, i) ==
    IF i > Len(s) THEN <<EndToken>>
    ELSE IF IsWhitespace(s[i]) THEN TokenizeFrom(s, i + 1)
    ELSE IF s[i] \in Delimiters1
         THEN <<[tt |-> "DELIMITER", tok |-> <<s[i]>>]>> \o TokenizeFrom(s, i + 1)
    ELSE IF IsDigit(s[i])
         THEN LET j == DigitsEnd(s, i)
              IN  <<[tt |-> "NUMBER", tok |-> SubStr(s, i, j)]>> \o TokenizeFrom(s, j + 1)
    ELSE IF IsAlpha(s[i])
         THEN LET j == WordEnd(s, i)
              IN  <<[tt |-> "SYMBOL", tok |-> SubStr(s, i, j)]>> \o TokenizeFrom(s, j + 1)
    ELSE <<[tt |-> "UNKNOWN", tok |-> <<s[i]>>]>> \o TokenizeFrom(s, i + 1)

Tokenize(s) == TokenizeFrom(s, 1)

Tok(tk, p) == tk[p].tok
TT(tk, p) == tk[p].tt
IsTok(tk, p, c) == tk[p].tt = "DELIMITER" /\ tk[p].tok = <<c>>

\* a parse step either throws (err non-empty) or yields a node and the next position
Fail(msg) == [err |-> <<msg>>, node |-> NoNode, pos |-> 0]
Ok(n, p) == [err |-> <<>>, node |-> n, pos |-> p]
Threw(r) == r.err # <<>>

NoLevel == 0 - 1

\* One operator holds every rule of the grammar, so that the rules can call
\* one another: ParseRule(rule, ...) is the parser function named rule.  arg1
\* and arg2 are the rule's own arguments besides the token list tk, the position
\* p, the nesting level lvl and the conditional level cl.
RECURSIVE ParseRule(_, _, _, _, _, _, _)

\* the comma-separated list of parseAssignment results; node holds the list
parseParams(tk, acc, p, lvl, cl) ==
    ParseRule("parseParams", tk, acc, NoNode, p, lvl, cl)

parseAssignment(tk, p, lvl, cl) ==
    ParseRule("parseAssignment", tk, NoNode, NoNode, p, lvl, cl)

parseConditional(tk, p, lvl, cl) ==
    ParseRule("parseConditional", tk, NoNode, NoNode, p, lvl, cl)

condTail(tk, node, p, lvl, cl) ==
    ParseRule("condTail", tk, node, NoNode, p, lvl, cl)

parseRange(tk, p, lvl, cl) ==
    ParseRule("parseRange", tk, NoNode, NoNode, p, lvl, cl)

rangeTail(tk, params, p, lvl, cl) ==
    ParseRule("rangeTail", tk, params, NoNode, p, lvl, cl)

parseAddSubtract(tk, p, lvl, cl) ==
    ParseRule("parseAddSubtract", tk, NoNode, NoNode, p, lvl, cl)

addTail(tk, node, p, lvl, cl) ==
    ParseRule("addTail", tk, node, NoNode, p, lvl, cl)

parseMultiplyDivide(tk, p, lvl, cl) ==
    ParseRule("parseMultiplyDivide", tk, NoNode, NoNode, p, lvl, cl)

mulTail(tk, node, p, lvl, cl) ==
    ParseRule("mulTail", tk, node, NoNode, p, lvl, cl)

parseImplicitMultiplication(tk, p, lvl, cl) ==
    ParseRule("parseImplicitMultiplication", tk, NoNode, NoNode, p, lvl, cl)

\* '2x', '(1+2)x', 'x y', '(1+2)2', '2(1+2)'
implicitTail(tk, node, last, p, lvl, cl) ==
    ParseRule("implicitTail", tk, node, last, p, lvl, cl)

parseUnary(tk, p, lvl, cl) ==
    ParseRule("parseUnary", tk, NoNode, NoNode, p, lvl, cl)

parsePow(tk, p, lvl, cl) ==
    ParseRule("parsePow", tk, NoNode, NoNode, p, lvl, cl)

parseLeftHandOperators(tk, p, lvl, cl) ==
    ParseRule("parseLeftHandOperators", tk, NoNode, NoNode, p, lvl, cl)

\* the postfix factorial
leftHandTail(tk, node, p, lvl, cl) ==
    ParseRule("leftHandTail", tk, node, NoNode, p, lvl, cl)

parseSymbol(tk, p, lvl, cl) ==
    ParseRule("parseSymbol", tk, NoNode, NoNode, p, lvl, cl)

\* fn(...) on a symbol or accessor, and the index notation a[...]
parseAccessors(tk, node, p, lvl, cl) ==
    ParseRule("parseAccessors", tk, node, NoNode, p, lvl, cl)

parseMatrix(tk, p, lvl, cl) ==
    ParseRule("parseMatrix", tk, NoNode, NoNode, p, lvl, cl)

parseNumber(tk, p, lvl, cl) ==
    ParseRule("parseNumber", tk, NoNode, NoNode, p, lvl, cl)

parseParentheses(tk, p, lvl, cl) ==
    ParseRule("parseParentheses", tk, NoNode, NoNode, p, lvl, cl)

\* parseUnary at a sign: the operand is read by parseUnary again
signedUnary(tk, p, lvl, cl) ==
    ParseRule("signedUnary", tk, NoNode, NoNode, p, lvl, cl)

\* the rest of a rule (leftHandTail, implicitTail, ...) applied to the node
\* and position that the rule below it returned
After(rule, tk, r, lvl, cl) ==
    ParseRule(rule, tk, r.node, r.node, r.pos, lvl, cl)

\* The operator rules, each of which begins by calling the rule below it:
\* parseAssignment calls parseConditional, which calls parseRange, and so on
\* down to parseLeftHandOperators, which calls parseSymbol.
OperatorRules ==
    <<"parseLeftHandOperators", "parsePow", "parseUnary",
      "parseImplicitMultiplication", "parseMultiplyDivide", "parseAddSubtract",
      "parseRange", "parseConditional", "parseAssignment">>

\* how far above parseLeftHandOperators a rule stands in that chain
Height(rule) == CHOOSE h \in 1..Len(OperatorRules) : OperatorRules[h] = rule

\* The value rules, each of which falls through to the next when the token
\* is not its own.
ValueRules == <<"parseSymbol", "parseMatrix", "parseNumber", "parseParentheses">>

Order(rule) == CHOOSE h \in 1..Len(ValueRules) : ValueRules[h] = rule

InSeq(rule, rules) == \E h \in 1..Len(rules) : rules[h] = rule

ParseRule(rule, tk, arg1, arg2, p, lvl, cl) ==
    CASE InSeq(rule, OperatorRules) ->
           \* The chain of calls from rule down to parseSymbol, written from
           \* the bottom up: each name is the value one rule returns at p when
           \* the rules below it did not throw.
           LET top == Height(rule)
               \* parseUnary reads a sign and does not call parsePow
               sign == /\ top >= Height("parseUnary")
                       /\ (IsTok(tk, p, "-") \/ IsTok(tk, p, "+"))
               \* parseRange reads a leading colon and does not call parseAddSubtract
               colon == top >= Height("parseRange") /\ IsTok(tk, p, ":")
               sym == parseSymbol(tk, p, lvl, cl)
               lho == After("leftHandTail", tk, sym, lvl, cl)
               pow == After("powTail", tk, lho, lvl, cl)
               unary == IF sign THEN signedUnary(tk, p, lvl, cl) ELSE pow
               implicit == After("implicitTail", tk, unary, lvl, cl)
               mul == After("mulTail", tk, implicit, lvl, cl)
               add == After("addTail", tk, mul, lvl, cl)
               first == IF colon THEN Ok(Node("ConstantNode", <<"1">>, <<>>), p) ELSE add
               range == After("rangeStart", tk, first, lvl, cl)
               cond == After("condTail", tk, range, lvl, cl)
           IN  IF ~sign /\ ~colon /\ Threw(sym) THEN sym
               ELSE IF ~sign /\ ~colon /\ Threw(lho) THEN lho
               ELSE IF rule = "parseLeftHandOperators" THEN lho
               ELSE IF ~sign /\ ~colon /\ Threw(pow) THEN pow
               ELSE IF rule = "parsePow" THEN pow
               ELSE IF ~colon /\ Threw(unary) THEN unary
               ELSE IF rule = "parseUnary" THEN unary
               ELSE IF ~colon /\ Threw(implicit) THEN implicit
               ELSE IF rule = "parseImplicitMultiplication" THEN implicit
               ELSE IF ~colon /\ Threw(mul) THEN mul
               ELSE IF rule = "parseMultiplyDivide" THEN mul
               ELSE IF ~colon /\ Threw(add) THEN add
               ELSE IF rule = "parseAddSubtract" THEN add
               ELSE IF Threw(range) THEN range
               ELSE IF rule = "parseRange" THEN range
               ELSE cond
      \* the exponent after the base that parsePow has read
      [] rule = "powTail" ->
           LET node == arg1 IN
           IF IsTok(tk, p, "^")
           THEN LET e == parseUnary(tk, p + 1, lvl, cl)
                IN  IF Threw(e) THEN e
                    ELSE Ok(Node("OperatorNode", <<"^">>, <<node, e.node>>), e.pos)
           ELSE Ok(node, p)
      [] rule = "signedUnary" ->
           LET r == parseUnary(tk, p + 1, lvl, cl)
           IN  IF Threw(r) THEN r
               ELSE Ok(Node("OperatorNode", Tok(tk, p), <<r.node>>), r.pos)
      \* parseRange after its first operand
      [] rule = "rangeStart" ->
           LET node == arg1 IN
           IF IsTok(tk, p, ":") /\ cl # lvl
           THEN rangeTail(tk, <<node>>, p, lvl, cl)
           ELSE Ok(node, p)
      [] rule = "parseParams" ->
           LET acc == arg1
               a == parseAssignment(tk, p, lvl, cl)
           IN  IF Threw(a) THEN a
               ELSE IF IsTok(tk, a.pos, ",")
                    THEN parseParams(tk, Append(acc, a.node), a.pos + 1, lvl, cl)
                    ELSE Ok(Append(acc, a.node), a.pos)
      [] rule = "rangeTail" ->
           LET params == arg1 IN
           IF IsTok(tk, p, ":") /\ Len(params) < 3
           THEN IF \/ IsTok(tk, p + 1, ")") \/ IsTok(tk, p + 1, "]")
                   \/ IsTok(tk, p + 1, ",") \/ TT(tk, p + 1) = "END"
                THEN rangeTail(tk, Append(params, Node("SymbolNode", <<"e", "n", "d">>, <<>>)),
                               p + 1, lvl, cl)
                ELSE LET a == parseAddSubtract(tk, p + 1, lvl, cl)
                     IN  IF Threw(a) THEN a
                         ELSE rangeTail(tk, Append(params, a.node), a.pos, lvl, cl)
           ELSE Ok(Node("RangeNode", <<>>, params), p)
      [] rule = "condTail" ->
           LET node == arg1 IN
           IF ~IsTok(tk, p, "?") THEN Ok(node, p)
           ELSE LET t == parseAssignment(tk, p + 1, lvl, lvl)
                IN  IF Threw(t) THEN t
                    ELSE IF ~IsTok(tk, t.pos, ":")
                         THEN Fail("False part of conditional expression expected")
                    ELSE LET f == parseAssignment(tk, t.pos + 1, lvl, NoLevel)
                         IN  IF Threw(f) THEN f
                             ELSE condTail(tk,
                                           Node("ConditionalNode", <<>>, <<node, t.node, f.node>>),
                                           f.pos, lvl, cl)
      [] rule = "addTail" ->
           LET node == arg1 IN
           IF IsTok(tk, p, "+") \/ IsTok(tk, p, "-")
           THEN LET r == parseMultiplyDivide(tk, p + 1, lvl, cl)
                IN  IF Threw(r) THEN r
                    ELSE addTail(tk, Node("OperatorNode", Tok(tk, p), <<node, r.node>>),
                                 r.pos, lvl, cl)
           ELSE Ok(node, p)
      [] rule = "mulTail" ->
           LET node == arg1 IN
           IF IsTok(tk, p, "*")
           THEN LET r == parseImplicitMultiplication(tk, p + 1, lvl, cl)
                IN  IF Threw(r) THEN r
                    ELSE mulTail(tk, Node("OperatorNode", <<"*">>, <<node, r.node>>),
                                 r.pos, lvl, cl)
           ELSE Ok(node, p)
      [] rule = "implicitTail" ->
           LET node == arg1 last == arg2 IN
           IF \/ TT(tk, p) = "SYMBOL"
              \/ /\ TT(tk, p) = "NUMBER"
                 /\ last.type # "ConstantNode"
                 /\ (last.type # "OperatorNode" \/ last.name = <<"!">>)
              \/ IsTok(tk, p, "(")
           THEN LET r == parseUnary(tk, p, lvl, cl)
                IN  IF Threw(r) THEN r
                    ELSE implicitTail(tk, Node("OperatorNode", <<"*">>, <<node, r.node>>),
                                      r.node, r.pos, lvl, cl)
           ELSE Ok(node, p)
      [] rule = "leftHandTail" ->
           LET node == arg1 IN
           IF IsTok(tk, p, "!")
           THEN LET a == parseAccessors(tk, Node("OperatorNode", <<"!">>, <<node>>), p + 1, lvl, cl)
                IN  IF Threw(a) THEN a ELSE leftHandTail(tk, a.node, a.pos, lvl, cl)
           ELSE Ok(node, p)
      [] rule = "parseAccessors" ->
           LET node == arg1 IN
           IF IsTok(tk, p, "(")
           THEN IF node.type \in {"SymbolNode", "AccessorNode"}
                THEN LET ps == IF IsTok(tk, p + 1, ")") THEN Ok(<<>>, p + 1)
                               ELSE parseParams(tk, <<>>, p + 1, lvl + 1, cl)
                     IN  IF Threw(ps) THEN ps
                         ELSE IF ~IsTok(tk, ps.pos, ")") THEN Fail("Parenthesis ) expected")
                         ELSE parseAccessors(tk,
                                             Node("FunctionNode", node.name, <<node>> \o ps.node),
                                             ps.pos + 1, lvl, cl)
                ELSE Ok(node, p)
           ELSE IF IsTok(tk, p, "[")
           THEN LET ps == IF IsTok(tk, p + 1, "]") THEN Ok(<<>>, p + 1)
                          ELSE parseParams(tk, <<>>, p + 1, lvl + 1, cl)
                IN  IF Threw(ps) THEN ps
                    ELSE IF ~IsTok(tk, ps.pos, "]") THEN Fail("Parenthesis ] expected")
                    ELSE parseAccessors(tk,
                                        Node("AccessorNode", <<>>,
                                             <<node, Node("IndexNode", <<>>, ps.node)>>),
                                        ps.pos + 1, lvl, cl)
           ELSE Ok(node, p)
      [] InSeq(rule, ValueRules) ->
           IF Order(rule) <= Order("parseSymbol") /\ TT(tk, p) = "SYMBOL"
           THEN parseAccessors(tk, Node("SymbolNode", Tok(tk, p), <<>>), p + 1, lvl, cl)
           ELSE IF Order(rule) <= Order("parseMatrix") /\ IsTok(tk, p, "[")
           THEN IF IsTok(tk, p + 1, "]")
                THEN parseAccessors(tk, Node("ArrayNode", <<>>, <<>>), p + 2, lvl, cl)
                ELSE LET row == parseParams(tk, <<>>, p + 1, lvl + 1, cl)
                     IN  IF Threw(row) THEN row
                         ELSE IF ~IsTok(tk, row.pos, "]") THEN Fail("End of matrix ] expected")
                         ELSE parseAccessors(tk, Node("ArrayNode", <<>>, row.node),
                                             row.pos + 1, lvl, cl)
           ELSE IF Order(rule) <= Order("parseNumber") /\ TT(tk, p) = "NUMBER"
           THEN Ok(Node("ConstantNode", Tok(tk, p), <<>>), p + 1)
           ELSE IF IsTok(tk, p, "(")
           THEN LET r == parseAssignment(tk, p + 1, lvl + 1, cl)
                IN  IF Threw(r) THEN r
                    ELSE IF ~IsTok(tk, r.pos, ")") THEN Fail("Parenthesis ) expected")
                    ELSE parseAccessors(tk, Node("ParenthesisNode", <<>>, <<r.node>>),
                                        r.pos + 1, lvl, cl)
           ELSE IF TT(tk, p) = "END" THEN Fail("Unexpected end of expression")
           ELSE Fail("Value expected")

\* parseStart: the whole text must be consumed
Parse(s) ==
    LET tk == Tokenize(s)
    IN  IF \E i \in 1..Len(tk) : tk[i].tt = "UNKNOWN" THEN Fail("Syntax error in part")
        ELSE IF TT(tk, 1) = "END" THEN Ok(Node("ConstantNode", <<>>, <<>>), 1)
        ELSE LET r == parseAssignment(tk, 1, 0, NoLevel)
             IN  IF Threw(r) THEN r
                 ELSE IF TT(tk, r.pos) # "END" THEN Fail("Unexpected part")
                 ELSE r

(***************************************************************************)
(* The safety validator (validateNode) of the 2D and of the 3D preparer    *)
(***************************************************************************)
\* the blocked kinds with the array literal forgotten
BLOCKED_NODE_TYPES_NoArray ==
    {"AssignmentNode", "FunctionAssignmentNode", "AccessorNode", "IndexNode",
     "RangeNode", "ObjectNode", "BlockNode"}

BLOCKED_NODE_TYPES ==
    {"AssignmentNode", "FunctionAssignmentNode", "AccessorNode", "IndexNode",
     "RangeNode", "ObjectNode", "ArrayNode", "BlockNode"}

BASE_ALLOWED_SYMBOLS == {<<"x">>, <<"p", "i">>, <<"e">>}
IMPLICIT_ALLOWED_SYMBOLS == {<<"x">>, <<"y">>, <<"p", "i">>, <<"e">>}
ALLOWED_SYMBOLS == {<<"x">>, <<"y">>, <<"p", "i">>, <<"e">>}

ALLOWED_FUNCTIONS ==
    {<<"s", "i", "n">>, <<"c", "o", "s">>, <<"t", "a", "n">>,
     <<"a", "s", "i", "n">>, <<"a", "c", "o", "s">>, <<"a", "t", "a", "n">>,
     <<"s", "q", "r", "t">>, <<"a", "b", "s">>, <<"l", "o", "g">>,
     <<"l", "o", "g", "1", "0">>, <<"e", "x", "p">>}

\* the callback of node.traverse: child is the idx-th child of parent
\* (idx = 0 and parent = NoNode for the root); error is the error so far
ValidateVisit(child, parent, idx, allowedSymbols, error) ==
    IF error # Null THEN error
    ELSE IF child.type \in BLOCKED_NODE_TYPES
         THEN <<"Unsupported expression feature", child.type>>
    ELSE IF child.type = "FunctionNode"
         THEN LET fnName == IF child.kids = <<>> THEN <<>> ELSE child.kids[1].name
              IN  IF fnName = <<>> \/ fnName \notin ALLOWED_FUNCTIONS
                  THEN <<"Unsupported function", fnName>>
                  ELSE error
    ELSE IF child.type = "SymbolNode"
         THEN LET isFunctionName == parent.type = "FunctionNode" /\ idx = 1
              IN  IF isFunctionName THEN error
                  ELSE IF child.name \notin allowedSymbols
                       THEN <<"Unknown symbol", child.name>>
                       ELSE error
    ELSE error

\* MathNode.traverse: the node itself first, then every child, depth first
RECURSIVE Traverse(_, _, _, _, _)
RECURSIVE TraverseKids(_, _, _, _)
RECURSIVE TraverseKids_SkipsCalls(_, _, _, _)
Traverse(node, parent, idx, allowedSymbols, error) ==
    TraverseKids(node, 1, allowedSymbols,
                 ValidateVisit(node, parent, idx, allowedSymbols, error))

\* a traversal that does not descend into the arguments of a function call
TraverseKids_SkipsCalls(node, k, allowedSymbols, error) ==
    IF k > Len(node.kids) \/ node.type = "FunctionNode" THEN error
    ELSE TraverseKids_SkipsCalls(node, k + 1, allowedSymbols,
                                 Traverse(node.kids[k], node, k, allowedSymbols, error))

TraverseKids(node, k, allowedSymbols, error) ==
    IF k > Len(node.kids) THEN error
    ELSE TraverseKids(node, k + 1, allowedSymbols,
                      Traverse(node.kids[k], node, k, allowedSymbols, error))

validateNode(node, allowedSymbols) == Traverse(node, NoNode, 0, allowedSymbols, Null)

validateNode3D(node) == Traverse(node, NoNode, 0, ALLOWED_SYMBOLS, Null)

(***************************************************************************)
(* The preparer.  A compiled evaluator closure is the record of the node   *)
(* it was compiled from and its number of arguments; node.toTex is a       *)
(* function of the node.                                                   *)
(***************************************************************************)
Closure(node, arity) == [compiled |-> node, arity |-> arity]
ToTex(node) == <<"tex", node>>

PreparedMath(mode, input, latex, error, evaluator, implicitEvaluator, node) ==
    [mode |-> mode, normalizedInput |-> input, latex |-> latex, error |-> error,
     evaluator |-> evaluator, implicitEvaluator |-> implicitEvaluator, node |-> node]

\* ExplicitFromParse with the node kept in the result when validation fails
ExplicitFromParse_KeepsNode(input, parsed) ==
    IF Threw(parsed)
    THEN PreparedMath("explicit", input, Null, parsed.err, Null, Null, Null)
    ELSE LET validationError == validateNode(parsed.node, BASE_ALLOWED_SYMBOLS)
         IN  IF validationError # Null
             THEN PreparedMath("explicit", input, Null, validationError, Null, Null,
                               Some(parsed.node))
             ELSE PreparedMath("explicit", input, Some(ToTex(parsed.node)), Null,
                               Some(Closure(parsed.node, 1)), Null, Some(parsed.node))

\* prepareExplicit after math.parse returned or threw
ExplicitFromParse(input, parsed) ==
    IF Threw(parsed)
    THEN PreparedMath("explicit", input, Null, parsed.err, Null, Null, Null)
    ELSE LET validationError == validateNode(parsed.node, BASE_ALLOWED_SYMBOLS)
         IN  IF validationError # Null
             THEN PreparedMath("explicit", input, Null, validationError, Null, Null, Null)
             ELSE PreparedMath("explicit", input, Some(ToTex(parsed.node)), Null,
                               Some(Closure(parsed.node, 1)), Null, Some(parsed.node))

prepareExplicit(input) == ExplicitFromParse(input, Parse(input))

\* prepareImplicit after math.parse returned or threw
ImplicitFromParse(input, parsed) ==
    IF Threw(parsed)
    THEN PreparedMath("implicit", input, Some(input), parsed.err, Null, Null, Null)
    ELSE LET validationError == validateNode(parsed.node, IMPLICIT_ALLOWED_SYMBOLS)
         IN  IF validationError # Null
             THEN PreparedMath("implicit", input, Some(input), validationError,
                               Null, Null, Null)
             ELSE PreparedMath("implicit", input, Some(input), Null, Null,
                               Some(Closure(parsed.node, 2)), Some(parsed.node))

prepareImplicit(input, left, right) ==
    ImplicitFromParse(input,
        Parse(<<"(">> \o left \o <<")", " ", "-", " ", "(">> \o right \o <<")">>))

\* prepareMath that solves out only the 'y = E' form, not 'E = y'
prepareMath_LeftOnly(raw) ==
    LET normalizedInput == normalizeInput(raw)
        equalityParts == SplitEquals(normalizedInput)
    IN  IF normalizedInput = <<>>
        THEN PreparedMath("explicit", normalizedInput, Null, Null, Null, Null, Null)
        ELSE IF Len(equalityParts) = 2
        THEN LET left == Trim(equalityParts[1])
                 right == Trim(equalityParts[2])
             IN  IF left = <<>> \/ right = <<>>
                 THEN PreparedMath("implicit", normalizedInput, Some(normalizedInput),
                                   <<"Both sides of the equation must be non-empty.">>,
                                   Null, Null, Null)
                 ELSE IF left = <<"y">> /\ ~UsesY(right) THEN prepareExplicit(right)
                 ELSE prepareImplicit(normalizedInput, left, right)
        ELSE IF Len(equalityParts) > 2
        THEN PreparedMath("implicit", normalizedInput, Some(normalizedInput),
                          <<"Use exactly one equals sign in an equation.">>,
                          Null, Null, Null)
        ELSE prepareExplicit(normalizedInput)

\* prepareMath that reads only the first two pieces of the split
prepareMath_FirstTwoParts(raw) ==
    LET normalizedInput == normalizeInput(raw)
        equalityParts == SplitEquals(normalizedInput)
    IN  IF normalizedInput = <<>>
        THEN PreparedMath("explicit", normalizedInput, Null, Null, Null, Null, Null)
        ELSE IF Len(equalityParts) >= 2
        THEN LET left == Trim(equalityParts[1])
                 right == Trim(equalityParts[2])
             IN  IF left = <<>> \/ right = <<>>
                 THEN PreparedMath("implicit", normalizedInput, Some(normalizedInput),
                                   <<"Both sides of the equation must be non-empty.">>,
                                   Null, Null, Null)
                 ELSE IF left = <<"y">> /\ ~UsesY(right) THEN prepareExplicit(right)
                 ELSE IF right = <<"y">> /\ ~UsesY(left) THEN prepareExplicit(left)
                 ELSE prepareImplicit(normalizedInput, left, right)
        ELSE prepareExplicit(normalizedInput)

prepareMath(raw) ==
    LET normalizedInput == normalizeInput(raw)
        equalityParts == SplitEquals(normalizedInput)
    IN  IF normalizedInput = <<>>
        THEN PreparedMath("explicit", normalizedInput, Null, Null, Null, Null, Null)
        ELSE IF Len(equalityParts) = 2
        THEN LET left == Trim(equalityParts[1])
                 right == Trim(equalityParts[2])
             IN  IF left = <<>> \/ right = <<>>
                 THEN PreparedMath("implicit", normalizedInput, Some(normalizedInput),
                                   <<"Both sides of the equation must be non-empty.">>,
                                   Null, Null, Null)
                 ELSE IF left = <<"y">> /\ ~UsesY(right) THEN prepareExplicit(right)
                 ELSE IF right = <<"y">> /\ ~UsesY(left) THEN prepareExplicit(left)
                 ELSE prepareImplicit(normalizedInput, left, right)
        ELSE IF Len(equalityParts) > 2
        THEN PreparedMath("implicit", normalizedInput, Some(normalizedInput),
                          <<"Use exactly one equals sign in an equation.">>,
                          Null, Null, Null)
        ELSE prepareExplicit(normalizedInput)

PreparedSurfaceMath(input, latex, error, evaluator, node) ==
    [normalizedInput |-> input, latex |-> latex, error |-> error,
     evaluator |-> evaluator, node |-> node]

\* the try block of prepareMath3D after math.parse returned or threw
SurfaceFromParse(input, parsed) ==
    IF Threw(parsed)
    THEN PreparedSurfaceMath(input, Null, parsed.err, Null, Null)
    ELSE LET validationError == validateNode3D(parsed.node)
         IN  IF validationError # Null
             THEN PreparedSurfaceMath(input, Null, validationError, Null, Null)
             ELSE PreparedSurfaceMath(input, Some(<<"z = ", ToTex(parsed.node)>>), Null,
                                      Some(Closure(parsed.node, 2)), Some(parsed.node))

prepareMath3D(raw) ==
    LET normalizedInput == normalizeInput(raw)
    IN  IF normalizedInput = <<>>
        THEN PreparedSurfaceMath(normalizedInput, Null, Null, Null, Null)
        ELSE IF Includes(normalizedInput, "=")
        THEN PreparedSurfaceMath(normalizedInput, Some(normalizedInput),
                 <<"3D mode expects z = f(x, y) entered as f(x, y) without an equals sign.">>,
                 Null, Null)
        ELSE SurfaceFromParse(normalizedInput, Parse(normalizedInput))

(***************************************************************************)
(* Calling an evaluator closure.  A JavaScript number is a record: cls is  *)
(* "finite", "NaN", "Infinity" or "-Infinity", and v is the value of a     *)
(* finite number in units of 1e-11.  What compiled.evaluate(scope) does at *)
(* one point is a choice over what mathjs can do there: it returns a       *)
(* number, a Complex {re, im}, a value of another kind, or it throws.      *)
(***************************************************************************)
\* 1e-10, the tolerance on the imaginary part, in units of 1e-11
ImagTolerance == 10

Finite(v) == [cls |-> "finite", v |-> v]
NotFinite(cls) == [cls |-> cls, v |-> 0]

\* Number.isFinite
isFinite(n) == n.cls = "finite"

\* Math.abs
abs(n) ==
    IF n.cls = "finite" THEN Finite(IF n.v < 0 THEN 0 - n.v ELSE n.v)
    ELSE IF n.cls = "NaN" THEN n
    ELSE NotFinite("Infinity")

\* a < b on numbers: false when either side is NaN
lessThan(a, b) ==
    IF a.cls = "NaN" \/ b.cls = "NaN" THEN FALSE
    ELSE IF a.cls = "-Infinity" THEN b.cls # "-Infinity"
    ELSE IF a.cls = "Infinity" THEN FALSE
    ELSE IF b.cls = "Infinity" THEN TRUE
    ELSE IF b.cls = "-Infinity" THEN FALSE
    ELSE a.v < b.v

\* a value handed back by compiled.evaluate, or the fact that it threw
Value(kind, re, im) == [kind |-> kind, re |-> re, im |-> im]

Numbers ==
    {Finite(v) : v \in {0 - (ImagTolerance + 1), 0 - ImagTolerance, 1 - ImagTolerance, 0,
                        ImagTolerance - 1, ImagTolerance, ImagTolerance + 1}}
    \cup {NotFinite(cls) : cls \in {"NaN", "Infinity", "-Infinity"}}

OtherKinds == {"boolean", "string", "null", "undefined", "object"}

EvaluateOutcomes ==
    {Value("number", re, Finite(0)) : re \in Numbers}
    \cup {Value("complex", re, im) : re \in {Finite(0), Finite(ImagTolerance), NotFinite("NaN"),
                                           NotFinite("Infinity")},
                                    im \in Numbers}
    \cup {Value(kind, Finite(0), Finite(0)) : kind \in OtherKinds}
    \cup {Value("throw", Finite(0), Finite(0))}

toFiniteNumber(value) ==
    IF value.kind = "number"
    THEN IF isFinite(value.re) THEN Some(value.re) ELSE Null
    ELSE IF /\ value.kind = "complex"
            /\ isFinite(value.re)
            /\ lessThan(abs(value.im), Finite(ImagTolerance))
         THEN Some(value.re)
    ELSE Null

\* the copy of toFiniteNumber in the 3D parser
toFiniteNumber3D(value) ==
    IF value.kind = "number"
    THEN IF isFinite(value.re) THEN Some(value.re) ELSE Null
    ELSE IF /\ value.kind = "complex"
            /\ isFinite(value.re)
            /\ lessThan(abs(value.im), Finite(ImagTolerance))
         THEN Some(value.re)
    ELSE Null

\* how a call ends: it returns value, or it throws
Returned(value) == [threw |-> FALSE, value |-> value]
Thrown == [threw |-> TRUE, value |-> Null]

\* the explicit evaluator with the exception let through
evaluatorExplicit_NoCatch(closure, args, raw) ==
    IF raw.kind = "throw" THEN Thrown ELSE Returned(toFiniteNumber(raw))

\* evaluator, the closure
\* (x) => { try { return toFiniteNumber(compiled.evaluate({x})) } catch { return null } }
\* raw is what compiled.evaluate does for these arguments
evaluatorExplicit(closure, args, raw) ==
    LET try == IF raw.kind = "throw" THEN Thrown ELSE Returned(toFiniteNumber(raw))
    IN  IF try.threw THEN Returned(Null) ELSE try

\* implicitEvaluator, the closure (x, y) => ... of an implicit equation
evaluatorImplicit(closure, args, raw) ==
    LET try == IF raw.kind = "throw" THEN Thrown ELSE Returned(toFiniteNumber(raw))
    IN  IF try.threw THEN Returned(Null) ELSE try

\* evaluator, the closure (x, y) => ... of a surface
evaluatorSurface(closure, args, raw) ==
    LET try == IF raw.kind = "throw" THEN Thrown ELSE Returned(toFiniteNumber3D(raw))
    IN  IF try.threw THEN Returned(Null) ELSE try

NoCall ==
    [which |-> "none", args |-> <<>>, raw |-> Value("undefined", Finite(0), Finite(0)),
     outcome |-> Returned(Null)]

(***************************************************************************)
(* The curve sampler.  Its numbers are exact: a finite number is the       *)
(* rational p/q in lowest terms with q > 0; cls tells a finite number from *)
(* null, NaN and the infinities.  The one rounding that is modelled is the *)
(* rounding of a sample position to a representable number: spacing is the *)
(* distance between neighbouring doubles around the domain, 0 when it is   *)
(* finer than anything the call computes.                                  *)
(***************************************************************************)
RECURSIVE Gcd(_, _)
Gcd(a, b) == IF b = 0 THEN a ELSE Gcd(b, a % b)

Magnitude(a) == IF a < 0 THEN 0 - a ELSE a
Min(a, b) == IF a < b THEN a ELSE b
Max(a, b) == IF a < b THEN b ELSE a

Rat(p, q) ==
    LET g == Gcd(Magnitude(p), Magnitude(q))
        s == IF q < 0 THEN 0 - 1 ELSE 1
    IN  [cls |-> "finite", p |-> s * (p \div g), q |-> s * (q \div g)]

Whole(k) == [cls |-> "finite", p |-> k, q |-> 1]
NotNumber(cls) == [cls |-> cls, p |-> 0, q |-> 1]

RatAdd(a, b) ==
    LET l == (a.q \div Gcd(a.q, b.q)) * b.q
    IN  Rat(a.p * (l \div a.q) + b.p * (l \div b.q), l)

RatSub(a, b) ==
    LET l == (a.q \div Gcd(a.q, b.q)) * b.q
    IN  Rat(a.p * (l \div a.q) - b.p * (l \div b.q), l)

RatMul(a, b) == Rat(a.p * b.p, a.q * b.q)

RatAbs(a) == [a EXCEPT !.p = Magnitude(a.p)]

\* p1/q1 < p2/q2 for positive q1 and q2, by whole parts and then remainders
RECURSIVE FracLess(_, _, _, _)
FracLess(p1, q1, p2, q2) ==
    IF p1 \div q1 # p2 \div q2 THEN p1 \div q1 < p2 \div q2
    ELSE IF p2 % q2 = 0 THEN FALSE
    ELSE IF p1 % q1 = 0 THEN TRUE
    ELSE FracLess(q2, p2 % q2, q1, p1 % q1)

RatLess(a, b) == FracLess(a.p, a.q, b.p, b.q)

RatMax(a, b) == IF RatLess(a, b) THEN b ELSE a

\* Math.round: the nearest integer, a half rounded up
Round(a) == (2 * a.p + a.q) \div (2 * a.q)

\* the representable number nearest to a, a tie going to the even multiple
Representable(a, spacing) ==
    IF spacing = 0 THEN a
    ELSE LET whole == a.p \div (a.q * spacing)
             twice == 2 * (a.p - whole * a.q * spacing)
         IN  IF twice < a.q * spacing THEN Whole(whole * spacing)
             ELSE IF twice > a.q * spacing THEN Whole((whole + 1) * spacing)
             ELSE IF whole % 2 = 0 THEN Whole(whole * spacing)
             ELSE Whole((whole + 1) * spacing)

\* an evaluator handed to the sampler: x^2, 1/(x-1), or the function whose
\* value at x is pattern[floor(x) mod Len(pattern)]
Evaluator(kind, pattern) == [kind |-> kind, pattern |-> pattern]

Apply(f, x) ==
    IF f.kind = "square" THEN RatMul(x, x)
    ELSE IF f.kind = "pole"
         THEN IF x.p = x.q THEN NotNumber("Infinity") ELSE Rat(x.q, x.p - x.q)
    ELSE f.pattern[((x.p \div x.q) % Len(f.pattern)) + 1]

\* Math.max(32, Math.min(5000, Math.round(samples))) with the lower limit forgotten
clampedSamples_NoFloor(samples) == Min(5000, Round(samples))

\* Math.max(32, Math.min(5000, Math.round(samples)))
clampedSamples(samples) == Max(32, Min(5000, Round(samples)))

\* Math.max(1e-6, viewport.yMax - viewport.yMin) * 8
jumpThreshold(viewport) ==
    RatMul(RatMax(Rat(1, 1000000), RatSub(viewport.yMax, viewport.yMin)), Whole(8))

\* the default of the parameter maxAbsY
DefaultMaxAbsY == Whole(1000000)

\* xMin + (i / clampedSamples) * (xMax - xMin)
SampleX(xMin, xMax, n, i, spacing) ==
    Representable(RatAdd(xMin, RatMul(Rat(i, n), RatSub(xMax, xMin))), spacing)

\* the segment is pushed whatever its length
Flush_KeepsSingletons(segments, currentSegment) ==
    IF Len(currentSegment) > 0 THEN Append(segments, currentSegment) ELSE segments

\* if (currentSegment.length > 1) segments.push(currentSegment)
Flush(segments, currentSegment) ==
    IF Len(currentSegment) > 1 THEN Append(segments, currentSegment) ELSE segments

NoY == NotNumber("null")

\* one pass through the body of the loop of sampleExpression, at index i;
\* call holds what the loop does not change, state what it does
SampleStep(call, i, state) ==
    LET x == SampleX(call.xMin, call.xMax, call.n, i, call.spacing)
        y == Apply(call.evaluator, x)
    IN  IF \/ y.cls = "null"
           \/ y.cls # "finite"
           \/ RatLess(call.maxAbsY, RatAbs(y))
        THEN [segments |-> Flush(state.segments, state.currentSegment),
              currentSegment |-> <<>>, prevY |-> NoY]
        ELSE IF state.prevY # NoY /\ RatLess(call.threshold, RatAbs(RatSub(y, state.prevY)))
             THEN [segments |-> Flush(state.segments, state.currentSegment),
                   currentSegment |-> <<[x |-> x, y |-> y]>>, prevY |-> y]
             ELSE [segments |-> state.segments,
                   currentSegment |-> Append(state.currentSegment, [x |-> x, y |-> y]),
                   prevY |-> y]

\* the passes lo..hi of the loop, one after another, starting in state; the
\* range is halved so that a long loop does not nest deeply
RECURSIVE SampleLoop(_, _, _, _)
SampleLoop(call, lo, hi, state) ==
    IF lo > hi THEN state
    ELSE IF lo = hi THEN SampleStep(call, lo, state)
    ELSE CHOOSE last \in {SampleLoop(call, (lo + hi) \div 2 + 1, hi, half) :
                             half \in {SampleLoop(call, lo, (lo + hi) \div 2, state)}} : TRUE

sampleExpression(evaluator, xMin, xMax, samples, viewport, maxAbsY, spacing) ==
    LET last == SampleLoop([evaluator |-> evaluator, xMin |-> xMin, xMax |-> xMax,
                            n |-> clampedSamples(samples),
                            threshold |-> jumpThreshold(viewport),
                            maxAbsY |-> maxAbsY, spacing |-> spacing],
                           0, clampedSamples(samples),
                           [segments |-> <<>>, currentSegment |-> <<>>, prevY |-> NoY])
    IN  Flush(last.segments, last.currentSegment)

NoSampling ==
    [input |-> [evaluator |-> Evaluator("none", <<>>), xMin |-> Whole(0), xMax |-> Whole(0),
                samples |-> Whole(0), viewport |-> [yMin |-> Whole(0), yMax |-> Whole(0)],
                spacing |-> 0],
     segments |-> <<>>, done |-> FALSE]

(***************************************************************************)
(* The implicit contour extractor (marching squares).  Numbers are exact   *)
(* rationals as in the curve sampler; the grid value NaN is                *)
(* NotNumber("NaN").  A call is computed either in exact arithmetic        *)
(* (digits = 0) or in floating point that keeps digits binary digits of    *)
(* every sum, difference, product and quotient, as a double keeps 53: the  *)
(* result of an operation is the nearest number with that many digits, a   *)
(* tie going to the even one.                                              *)
(***************************************************************************)
RatDiv(a, b) == Rat(a.p * b.q, a.q * b.p)

\* the distance between the numbers of lowest.p binary digits around a > 0:
\* the power of two unit with lowest * unit <= a < 2 * lowest * unit
RECURSIVE SpacingAt(_, _, _)
SpacingAt(a, lowest, unit) ==
    IF RatLess(a, RatMul(lowest, unit)) THEN SpacingAt(a, lowest, RatMul(unit, Rat(1, 2)))
    ELSE IF ~RatLess(a, RatMul(RatMul(lowest, Whole(2)), unit))
    THEN SpacingAt(a, lowest, RatMul(unit, Whole(2)))
    ELSE unit

\* the multiple of unit nearest to count * unit, a tie going to the even multiple
NearestMultiple(count, unit) ==
    IF 2 * (count.p % count.q) < count.q THEN RatMul(Whole(count.p \div count.q), unit)
    ELSE IF 2 * (count.p % count.q) > count.q
    THEN RatMul(Whole(count.p \div count.q + 1), unit)
    ELSE IF (count.p \div count.q) % 2 = 0 THEN RatMul(Whole(count.p \div count.q), unit)
    ELSE RatMul(Whole(count.p \div count.q + 1), unit)

RECURSIVE TwoTo(_)
TwoTo(n) == IF n = 0 THEN 1 ELSE 2 * TwoTo(n - 1)

RoundedTo(a, unit) == NearestMultiple(RatDiv(a, unit), unit)

\* the result of an operation whose exact value is a
Fl(a, digits) ==
    IF digits = 0 \/ a.cls # "finite" \/ a.p = 0 THEN a
    ELSE IF a.p < 0
    THEN RatSub(Whole(0), RoundedTo(RatAbs(a), SpacingAt(RatAbs(a), Whole(TwoTo(digits - 1)), Whole(1))))
    ELSE RoundedTo(a, SpacingAt(a, Whole(TwoTo(digits - 1)), Whole(1)))

\* x1 + t * (x2 - x1)
Lerp(x1, x2, t, digits) ==
    Fl(RatAdd(x1, Fl(RatMul(t, Fl(RatSub(x2, x1), digits)), digits)), digits)

RatSign(a) == IF a.p > 0 THEN 1 ELSE IF a.p < 0 THEN 0 - 1 ELSE 0

\* Math.abs(v) < 1e-12
NearZero(v) == ((v.q - 1) \div 1000000) \div 1000000 >= Magnitude(v.p)

SegmentPoint(x, y) == [x |-> x, y |-> y]

\* the last two statements of edgeIntersection, t being v1 / (v1 - v2)
CrossingAt(x1, y1, x2, y2, t, digits) ==
    IF RatLess(t, Whole(0)) \/ RatLess(Whole(1), t) THEN Null
    ELSE Some(SegmentPoint(Lerp(x1, x2, t, digits), Lerp(y1, y2, t, digits)))

edgeIntersection(x1, y1, v1, x2, y2, v2, digits) ==
    IF v1.cls # "finite" \/ v2.cls # "finite" THEN Null
    ELSE IF NearZero(v1) /\ NearZero(v2) THEN Null
    ELSE IF NearZero(v1) THEN Some(SegmentPoint(x1, y1))
    ELSE IF NearZero(v2) THEN Some(SegmentPoint(x2, y2))
    ELSE IF RatSign(v1) = RatSign(v2) THEN Null
    ELSE CrossingAt(x1, y1, x2, y2,
                    Fl(RatDiv(v1, Fl(RatSub(v1, v2), digits)), digits), digits)

\* Math.round(Math.sqrt(Math.max(1, samples)) * 2.2): the k with
\* (k - 1/2)^2 <= 4.84 * s < (k + 1/2)^2
RoundedRoot(samples) ==
    LET s == RatMax(Whole(1), samples)
    IN  CHOOSE k \in 0..(3 * (Round(s) + 1)) :
            /\ 25 * (2 * k - 1) * (2 * k - 1) * s.q <= 484 * s.p
            /\ 484 * s.p < 25 * (2 * k + 1) * (2 * k + 1) * s.q

\* Math.max(30, Math.min(180, Math.round(Math.sqrt(Math.max(1, samples)) * 2.2)))
resolution(samples) == Max(30, Min(180, RoundedRoot(samples)))

\* the default of the parameter maxAbsValue
DefaultMaxAbsValue == Whole(100000000)

\* a two-argument evaluator handed to the extractor: x^2 + y^2 - 1, or the
\* field that repeats the 2 x 2 tile of values pattern on the whole
\* coordinates and is centre everywhere else
Evaluator2(kind, pattern, centre) == [kind |-> kind, pattern |-> pattern, centre |-> centre]

Apply2(f, x, y) ==
    IF f.kind = "circle" THEN RatSub(RatAdd(RatMul(x, x), RatMul(y, y)), Whole(1))
    ELSE IF x.q = 1 /\ y.q = 1 THEN f.pattern[2 * (y.p % 2) + (x.p % 2) + 1]
    ELSE f.centre

\* value === null || !Number.isFinite(value) || Math.abs(value) > maxAbsValue ? NaN : value
GridValue(value, maxAbsValue) ==
    IF value.cls = "null" \/ value.cls # "finite" \/ RatLess(maxAbsValue, RatAbs(value))
    THEN NotNumber("NaN")
    ELSE value

\* viewport.xMin + ix * dx, viewport.yMin + iy * dy
GridLine(low, i, step, digits) == Fl(RatAdd(low, Fl(RatMul(Whole(i), step), digits)), digits)

\* values[iy][ix], kept as a function of the two indexes
GridValues(evaluator, viewport, nx, ny, dx, dy, maxAbsValue, digits) ==
    [iy \in 0..ny |->
        [ix \in 0..nx |->
            GridValue(Apply2(evaluator, GridLine(viewport.xMin, ix, dx, digits),
                             GridLine(viewport.yMin, iy, dy, digits)),
                      maxAbsValue)]]

\* the crossings of the cell (ix, iy) in the order bottom, right, top, left,
\* as the array intersections
Intersections(call, iy, ix) ==
    LET y0 == GridLine(call.viewport.yMin, iy, call.dy, call.digits)
        y1 == Fl(RatAdd(y0, call.dy), call.digits)
        x0 == GridLine(call.viewport.xMin, ix, call.dx, call.digits)
        x1 == Fl(RatAdd(x0, call.dx), call.digits)
        v00 == call.values[iy][ix]
        v10 == call.values[iy][ix + 1]
        v11 == call.values[iy + 1][ix + 1]
        v01 == call.values[iy + 1][ix]
    IN  edgeIntersection(x0, y0, v00, x1, y0, v10, call.digits)
        \o edgeIntersection(x1, y0, v10, x1, y1, v11, call.digits)
        \o edgeIntersection(x1, y1, v11, x0, y1, v01, call.digits)
        \o edgeIntersection(x0, y1, v01, x0, y0, v00, call.digits)

\* evaluator((x0 + x1) / 2, (y0 + y1) / 2)
CenterValue(call, iy, ix) ==
    LET y0 == GridLine(call.viewport.yMin, iy, call.dy, call.digits)
        x0 == GridLine(call.viewport.xMin, ix, call.dx, call.digits)
    IN  Apply2(call.evaluator,
               RatMul(Fl(RatAdd(x0, Fl(RatAdd(x0, call.dx), call.digits)), call.digits),
                      Rat(1, 2)),
               RatMul(Fl(RatAdd(y0, Fl(RatAdd(y0, call.dy), call.digits)), call.digits),
                      Rat(1, 2)))

\* the saddle is joined whatever the centre value is
Connect_IgnoresCenter(intersections, centerValue) ==
    IF Len(intersections) = 2 THEN <<<<intersections[1], intersections[2]>>>>
    ELSE IF Len(intersections) = 4
    THEN IF centerValue.cls = "finite" /\ centerValue.p > 0
         THEN <<<<intersections[1], intersections[4]>>, <<intersections[2], intersections[3]>>>>
         ELSE <<<<intersections[1], intersections[2]>>, <<intersections[3], intersections[4]>>>>
    ELSE <<>>

\* what the body of the inner loop pushes for one cell
Connect(intersections, centerValue) ==
    IF Len(intersections) = 2 THEN <<<<intersections[1], intersections[2]>>>>
    ELSE IF Len(intersections) = 4
    THEN IF centerValue.cls # "null" /\ centerValue.cls = "finite"
         THEN IF centerValue.p > 0
              THEN <<<<intersections[1], intersections[4]>>,
                     <<intersections[2], intersections[3]>>>>
              ELSE <<<<intersections[1], intersections[2]>>,
                     <<intersections[3], intersections[4]>>>>
         ELSE <<>>
    ELSE <<>>

CellSegments(call, iy, ix) ==
    LET intersections == Intersections(call, iy, ix)
    IN  Connect(intersections,
                IF Len(intersections) = 4 THEN CenterValue(call, iy, ix) ELSE NoY)

\* the inner loop from the cell ix on
RECURSIVE RowSegments(_, _, _)
RowSegments(call, iy, ix) ==
    IF ix >= call.nx THEN <<>>
    ELSE CellSegments(call, iy, ix) \o RowSegments(call, iy, ix + 1)

\* the outer loop from the row iy on
RECURSIVE GridSegments(_, _)
GridSegments(call, iy) ==
    IF iy >= call.ny THEN <<>>
    ELSE RowSegments(call, iy, 0) \o GridSegments(call, iy + 1)

\* what the loops of sampleImplicitContours read and do not change
ContourCall(evaluator, viewport, samples, maxAbsValue, digits) ==
    LET nx == resolution(samples)
        ny == resolution(samples)
        dx == Fl(RatDiv(Fl(RatSub(viewport.xMax, viewport.xMin), digits), Whole(nx)), digits)
        dy == Fl(RatDiv(Fl(RatSub(viewport.yMax, viewport.yMin), digits), Whole(ny)), digits)
    IN  [evaluator |-> evaluator, viewport |-> viewport, nx |-> nx, ny |-> ny,
         dx |-> dx, dy |-> dy, digits |-> digits,
         values |-> GridValues(evaluator, viewport, nx, ny, dx, dy, maxAbsValue, digits)]

sampleImplicitContours(evaluator, viewport, samples, maxAbsValue, digits) ==
    GridSegments(ContourCall(evaluator, viewport, samples, maxAbsValue, digits), 0)

NoContours ==
    [input |-> [evaluator |-> Evaluator2("none", <<>>, NoY),
                viewport |-> [xMin |-> Whole(0), xMax |-> Whole(0),
                              yMin |-> Whole(0), yMax |-> Whole(0)],
                samples |-> Whole(0), digits |-> 0],
     segments |-> <<>>, done |-> FALSE]

(***************************************************************************)
(* The symbolic transpilers convertAstToTikz (2D) and convertAstToTikz3D.  *)
(* A ConstantNode that math.parse built holds a number (its digits read    *)
(* by numeric()), or undefined for the blank text; a template literal      *)
(* turns the number back into digits.  The field expression of a result    *)
(* is therefore a text, a number or undefined: Str, Num or Null.           *)
(***************************************************************************)
Str(text) == Some([type |-> "string", text |-> text, value |-> 0])
Num(n) == Some([type |-> "number", text |-> <<>>, value |-> n])

DigitChars == <<"0", "1", "2", "3", "4", "5", "6", "7", "8", "9">>

\* numeric(token): the number a sequence of digits denotes
RECURSIVE numeric(_)
numeric(digits) ==
    IF digits = <<>> THEN 0
    ELSE 10 * numeric(SubSeq(digits, 1, Len(digits) - 1))
         + (CHOOSE d \in 0..9 : DigitChars[d + 1] = digits[Len(digits)])

\* String(n) for a natural number
RECURSIVE Decimal(_)
Decimal(n) ==
    IF n < 10 THEN <<DigitChars[n + 1]>>
    ELSE Append(Decimal(n \div 10), DigitChars[(n % 10) + 1])

\* node.value of a ConstantNode
ConstantValue(node) == IF node.name = <<>> THEN Null ELSE Num(numeric(node.name))

\* !expression is false
Truthy(expression) ==
    /\ expression # Null
    /\ IF expression[1].type = "number" THEN expression[1].value # 0
       ELSE expression[1].text # <<>>

\* ${expression} in a template literal
Interpolate(expression) ==
    IF expression = Null THEN <<"u", "n", "d", "e", "f", "i", "n", "e", "d">>
    ELSE IF expression[1].type = "number" THEN Decimal(expression[1].value)
    ELSE expression[1].text

TikzExprResult(ok, expression, reason) ==
    [ok |-> ok, expression |-> expression, reason |-> reason]

Converted(text) == TikzExprResult(TRUE, Str(text), Null)
NotConverted(reason) == TikzExprResult(FALSE, Null, Some(reason))

UNSUPPORTED_TRIG == {<<"s", "i", "n">>, <<"c", "o", "s">>, <<"t", "a", "n">>, <<"a", "s", "i", "n">>, <<"a", "c", "o", "s">>, <<"a", "t", "a", "n">>}
SUPPORTED_FUNCTIONS == {<<"s", "q", "r", "t">>, <<"a", "b", "s">>, <<"e", "x", "p">>, <<"l", "o", "g">>, <<"l", "n">>}

\* operatorNode.fn, which mathjs derives from the operator and its arity
OperatorFn(node) ==
    IF Len(node.kids) = 1
    THEN IF node.name = <<"-">> THEN "unaryMinus"
         ELSE IF node.name = <<"+">> THEN "unaryPlus"
         ELSE IF node.name = <<"!">> THEN "factorial"
         ELSE "not"
    ELSE IF node.name = <<"+">> THEN "add"
    ELSE IF node.name = <<"-">> THEN "subtract"
    ELSE IF node.name = <<"*">> THEN "multiply"
    ELSE IF node.name = <<"/">> THEN "divide"
    ELSE IF node.name = <<"^">> THEN "pow"
    ELSE "mod"

\* fnNode.fn.name ?? '' and fnNode.args: the first child is the called node
FnName(node) == IF node.kids[1].type = "SymbolNode" THEN node.kids[1].name ELSE <<>>
FnArgs(node) == Tail(node.kids)

wrapBinary(op, left, right) == <<"(">> \o left \o <<")">> \o op \o <<"(">> \o right \o <<")">>

\* switch (operatorNode.fn), the same in both transpilers
BinaryResult(fn, op, left, right) ==
    IF fn = "add" THEN Converted(wrapBinary(<<"+">>, left, right))
    ELSE IF fn = "subtract" THEN Converted(wrapBinary(<<"-">>, left, right))
    ELSE IF fn = "multiply" THEN Converted(wrapBinary(<<"*">>, left, right))
    ELSE IF fn = "divide" THEN Converted(wrapBinary(<<"/">>, left, right))
    ELSE IF fn = "pow" THEN Converted(<<"p", "o", "w", "(">> \o left \o <<",">> \o right \o <<")">>)
    ELSE NotConverted(<<"U", "n", "s", "u", "p", "p", "o", "r", "t", "e", "d", " ", "o", "p", "e", "r", "a", "t", "o", "r", " ">> \o op)

\* the OperatorNode branch once its operands are converted
OperatorResult(node, first, second) ==
    IF Len(node.kids) = 1 /\ node.name = <<"-">>
    THEN IF ~first.ok \/ ~Truthy(first.expression) THEN first
         ELSE Converted(<<"-", "(">> \o Interpolate(first.expression) \o <<")">>)
    ELSE IF Len(node.kids) # 2
    THEN NotConverted(<<"O", "n", "l", "y", " ", "b", "i", "n", "a", "r", "y", " ", "o", "p", "e", "r", "a", "t", "o", "r", "s", " ", "a", "r", "e", " ", "s", "u", "p", "p", "o", "r", "t", "e", "d", ".">>)
    ELSE IF ~first.ok THEN first
    ELSE IF ~second.ok THEN second
    ELSE IF ~Truthy(first.expression) \/ ~Truthy(second.expression)
    THEN NotConverted(<<"F", "a", "i", "l", "e", "d", " ", "t", "o", " ", "c", "o", "n", "v", "e", "r", "t", " ", "b", "i", "n", "a", "r", "y", " ", "o", "p", "e", "r", "a", "t", "i", "o", "n", ".">>)
    ELSE BinaryResult(OperatorFn(node), node.name, Interpolate(first.expression),
                      Interpolate(second.expression))

\* the trig check is left out
FunctionResult_TrigPasses(node, arg) ==
    LET fnName == FnName(node)
    IN  IF fnName \notin SUPPORTED_FUNCTIONS \cup UNSUPPORTED_TRIG
        THEN NotConverted(<<"U", "n", "s", "u", "p", "p", "o", "r", "t", "e", "d", " ", "f", "u", "n", "c", "t", "i", "o", "n", " ">> \o fnName)
        ELSE IF Len(FnArgs(node)) # 1
        THEN NotConverted(fnName \o <<" ", "w", "i", "t", "h", " ", "m", "u", "l", "t", "i", "p", "l", "e", " ", "a", "r", "g", "u", "m", "e", "n", "t", "s", " ", "i", "s", " ", "u", "n", "s", "u", "p", "p", "o", "r", "t", "e", "d", ".">>)
        ELSE IF ~arg.ok \/ ~Truthy(arg.expression) THEN arg
        ELSE IF fnName = <<"l", "o", "g">> \/ fnName = <<"l", "n">>
        THEN Converted(<<"l", "n", "(">> \o Interpolate(arg.expression) \o <<")">>)
        ELSE Converted(fnName \o <<"(">> \o Interpolate(arg.expression) \o <<")">>)

\* the FunctionNode branch of the 2D transpiler; arg is its first argument converted
FunctionResult(node, arg) ==
    LET fnName == FnName(node)
    IN  IF fnName \in UNSUPPORTED_TRIG
        THEN NotConverted(<<"T", "r", "i", "g", "/", "i", "n", "v", "e", "r", "s", "e", " ", "t", "r", "i", "g", " ", "e", "x", "p", "o", "r", "t", " ", "i", "s", " ", "e", "m", "i", "t", "t", "e", "d", " ", "a", "s", " ", "c", "o", "o", "r", "d", "i", "n", "a", "t", "e", "s", " ", "f", "o", "r", " ", "s", "a", "f", "e", "t", "y", " ", "(">>
                          \o fnName \o <<")", ".">>)
        ELSE IF fnName \notin SUPPORTED_FUNCTIONS
        THEN NotConverted(<<"U", "n", "s", "u", "p", "p", "o", "r", "t", "e", "d", " ", "f", "u", "n", "c", "t", "i", "o", "n", " ">> \o fnName)
        ELSE IF Len(FnArgs(node)) # 1
        THEN NotConverted(fnName \o <<" ", "w", "i", "t", "h", " ", "m", "u", "l", "t", "i", "p", "l", "e", " ", "a", "r", "g", "u", "m", "e", "n", "t", "s", " ", "i", "s", " ", "u", "n", "s", "u", "p", "p", "o", "r", "t", "e", "d", ".">>)
        ELSE IF ~arg.ok \/ ~Truthy(arg.expression) THEN arg
        ELSE IF fnName = <<"l", "o", "g">> \/ fnName = <<"l", "n">>
        THEN Converted(<<"l", "n", "(">> \o Interpolate(arg.expression) \o <<")">>)
        ELSE Converted(fnName \o <<"(">> \o Interpolate(arg.expression) \o <<")">>)

\* the SymbolNode branch of the 2D transpiler
SymbolResult(name) ==
    IF name = <<"x">> THEN Converted(<<"\\", "x">>)
    ELSE IF name = <<"p", "i">> THEN Converted(<<"p", "i">>)
    ELSE IF name = <<"e">> THEN Converted(<<"e", "x", "p", "(", "1", ")">>)
    ELSE NotConverted(<<"U", "n", "s", "u", "p", "p", "o", "r", "t", "e", "d", " ", "s", "y", "m", "b", "o", "l", " ">> \o name)

\* the SymbolNode branch of the 3D transpiler
SymbolResult3D(name) ==
    IF name = <<"x">> \/ name = <<"y">> THEN Converted(name)
    ELSE IF name = <<"p", "i">> THEN Converted(<<"p", "i">>)
    ELSE IF name = <<"e">> THEN Converted(<<"e", "x", "p", "(", "1", ")">>)
    ELSE NotConverted(<<"U", "n", "s", "u", "p", "p", "o", "r", "t", "e", "d", " ", "s", "y", "m", "b", "o", "l", " ">> \o name)

\* what a node without children to convert comes to; symbol is the outcome
\* of the SymbolNode branch
LeafResult(node, symbol) ==
    IF node.type = "ConstantNode" THEN TikzExprResult(TRUE, ConstantValue(node), Null)
    ELSE IF node.type = "SymbolNode" THEN symbol
    ELSE NotConverted(<<"U", "n", "s", "u", "p", "p", "o", "r", "t", "e", "d", " ", "n", "o", "d", "e", " ", "t", "y", "p", "e", " ">> \o <<node.type>>)

RECURSIVE convertNode(_)
convertNode(node) ==
    IF node.type = "ParenthesisNode" THEN convertNode(node.kids[1])
    ELSE IF node.type = "OperatorNode"
    THEN OperatorResult(node, convertNode(node.kids[1]),
                        IF Len(node.kids) = 2 THEN convertNode(node.kids[2])
                        ELSE NotConverted(<<>>))
    ELSE IF node.type = "FunctionNode"
    THEN FunctionResult(node, IF Len(FnArgs(node)) = 1 THEN convertNode(node.kids[2])
                              ELSE NotConverted(<<>>))
    ELSE LeafResult(node, SymbolResult(node.name))

\* node is null (Null) or an AST (Some)
convertAstToTikz(node) ==
    IF node = Null THEN NotConverted(<<"N", "o", " ", "p", "a", "r", "s", "e", "d", " ", "e", "x", "p", "r", "e", "s", "s", "i", "o", "n", ".">>)
    ELSE convertNode(node[1])

\* the FunctionNode branch of the 3D transpiler
FunctionResult3D(node, arg) ==
    LET fnName == FnName(node)
    IN  IF Len(FnArgs(node)) # 1
        THEN NotConverted(fnName \o <<" ", "w", "i", "t", "h", " ", "m", "u", "l", "t", "i", "p", "l", "e", " ", "a", "r", "g", "u", "m", "e", "n", "t", "s", " ", "i", "s", " ", "u", "n", "s", "u", "p", "p", "o", "r", "t", "e", "d", ".">>)
        ELSE IF ~arg.ok \/ ~Truthy(arg.expression) THEN arg
        ELSE IF fnName \in {<<"s", "i", "n">>, <<"c", "o", "s">>, <<"t", "a", "n">>}
        THEN Converted(fnName \o <<"(", "d", "e", "g", "(">> \o Interpolate(arg.expression) \o <<")", ")">>)
        ELSE IF fnName \in {<<"a", "s", "i", "n">>, <<"a", "c", "o", "s">>, <<"a", "t", "a", "n">>}
        THEN Converted(<<"(">> \o fnName \o <<"(">> \o Interpolate(arg.expression) \o <<")", ")", "*", "p", "i", "/", "1", "8", "0">>)
        ELSE IF fnName \in {<<"s", "q", "r", "t">>, <<"a", "b", "s">>, <<"e", "x", "p">>}
        THEN Converted(fnName \o <<"(">> \o Interpolate(arg.expression) \o <<")">>)
        ELSE IF fnName = <<"l", "o", "g">>
        THEN Converted(<<"l", "n", "(">> \o Interpolate(arg.expression) \o <<")">>)
        ELSE IF fnName = <<"l", "o", "g", "1", "0">>
        THEN Converted(<<"(", "l", "n", "(">> \o Interpolate(arg.expression) \o <<")", "/", "l", "n", "(", "1", "0", ")", ")">>)
        ELSE NotConverted(<<"U", "n", "s", "u", "p", "p", "o", "r", "t", "e", "d", " ", "f", "u", "n", "c", "t", "i", "o", "n", " ">> \o fnName)

RECURSIVE convertNode3D(_)
convertNode3D(node) ==
    IF node.type = "ParenthesisNode" THEN convertNode3D(node.kids[1])
    ELSE IF node.type = "OperatorNode"
    THEN OperatorResult(node, convertNode3D(node.kids[1]),
                        IF Len(node.kids) = 2 THEN convertNode3D(node.kids[2])
                        ELSE NotConverted(<<>>))
    ELSE IF node.type = "FunctionNode"
    THEN FunctionResult3D(node, IF Len(FnArgs(node)) = 1 THEN convertNode3D(node.kids[2])
                                ELSE NotConverted(<<>>))
    ELSE LeafResult(node, SymbolResult3D(node.name))

convertAstToTikz3D(node) ==
    IF node = Null THEN NotConverted(<<"N", "o", " ", "p", "a", "r", "s", "e", "d", " ", "e", "x", "p", "r", "e", "s", "s", "i", "o", "n", ".">>)
    ELSE convertNode3D(node[1])

NoConversion ==
    [node |-> Null, nest |-> 0, tikz |-> NotConverted(<<>>), tikz3D |-> NotConverted(<<>>),
     lines |-> <<>>]

(***************************************************************************)
(* Doubles.  A number is an exact rational of ordinary size, NaN, an       *)
(* infinity, or a number of class "huge", the rational p/q times 2^1000.   *)
(* A huge number absorbs an ordinary one added to it, since doubles around *)
(* it are farther apart than any ordinary number is large; the product of  *)
(* two huge numbers overflows, and so does a huge number that reaches      *)
(* 2^1024.  The rounding of ordinary numbers is left out.                  *)
(***************************************************************************)
Huge(p, q) == [Rat(p, q) EXCEPT !.cls = "huge"]

\* 2^24: a huge number whose rational reaches it is beyond Number.MAX_VALUE
HugeLimit == 16777216

\* Number.isFinite
IsFinite(a) == a.cls \in {"finite", "huge"}

Mantissa(a) == [a EXCEPT !.cls = "finite"]

\* the sign of a number that is not NaN
SignOf(a) ==
    IF a.cls = "Infinity" THEN 1 ELSE IF a.cls = "-Infinity" THEN 0 - 1 ELSE RatSign(a)

Infinite(sign) == NotNumber(IF sign > 0 THEN "Infinity" ELSE "-Infinity")

Negate(a) ==
    IF a.cls = "NaN" THEN a
    ELSE IF ~IsFinite(a) THEN Infinite(0 - SignOf(a))
    ELSE [a EXCEPT !.p = 0 - a.p]

\* the huge number with the rational m, or the infinity it overflows to
HugeOf(m) ==
    IF m.p = 0 THEN m
    ELSE IF ~RatLess(RatAbs(m), Whole(HugeLimit)) THEN Infinite(RatSign(m))
    ELSE [m EXCEPT !.cls = "huge"]

\* a + b
Plus(a, b) ==
    IF a.cls = "NaN" \/ b.cls = "NaN" THEN NotNumber("NaN")
    ELSE IF ~IsFinite(a)
    THEN IF ~IsFinite(b) /\ SignOf(a) # SignOf(b) THEN NotNumber("NaN") ELSE a
    ELSE IF ~IsFinite(b) THEN b
    ELSE IF a.cls = "huge" /\ b.cls = "huge"
    THEN HugeOf(RatAdd(Mantissa(a), Mantissa(b)))
    ELSE IF a.cls = "huge" THEN a
    ELSE IF b.cls = "huge" THEN b
    ELSE RatAdd(a, b)

\* a - b
Minus(a, b) == Plus(a, Negate(b))

\* a * b
Times(a, b) ==
    IF a.cls = "NaN" \/ b.cls = "NaN" THEN NotNumber("NaN")
    ELSE IF SignOf(a) = 0 \/ SignOf(b) = 0
    THEN IF IsFinite(a) /\ IsFinite(b) THEN Whole(0) ELSE NotNumber("NaN")
    ELSE IF ~IsFinite(a) \/ ~IsFinite(b) \/ (a.cls = "huge" /\ b.cls = "huge")
    THEN Infinite(SignOf(a) * SignOf(b))
    ELSE IF a.cls = "huge" \/ b.cls = "huge"
    THEN HugeOf(RatMul(Mantissa(a), Mantissa(b)))
    ELSE RatMul(a, b)

\* a / 2
Halved(a) == Times(a, Rat(1, 2))

\* Math.abs
Abs(a) == IF SignOf(a) < 0 THEN Negate(a) ELSE a

\* a < b; false when either is NaN
Less(a, b) ==
    IF a.cls = "NaN" \/ b.cls = "NaN" THEN FALSE
    ELSE IF a.cls = b.cls /\ IsFinite(a) THEN RatLess(Mantissa(a), Mantissa(b))
    ELSE IF a.cls = b.cls THEN FALSE
    ELSE IF ~IsFinite(a) THEN SignOf(a) < 0
    ELSE IF ~IsFinite(b) THEN SignOf(b) > 0
    ELSE IF a.cls = "huge" THEN SignOf(a) < 0
    ELSE SignOf(b) > 0

\* a <= b; false when either is NaN
AtMost(a, b) == a.cls # "NaN" /\ b.cls # "NaN" /\ ~Less(b, a)

\* Math.max of two numbers
MathMax(a, b) ==
    IF a.cls = "NaN" \/ b.cls = "NaN" THEN NotNumber("NaN")
    ELSE IF Less(a, b) THEN b ELSE a

\* Math.min of two numbers
MathMin(a, b) ==
    IF a.cls = "NaN" \/ b.cls = "NaN" THEN NotNumber("NaN")
    ELSE IF Less(b, a) THEN b ELSE a

(***************************************************************************)
(* The 2D exporter generateTikzExport.  A line of the document is the      *)
(* record of its parts; the numbers in it are the numbers handed to        *)
(* formatNumber.  The header, the grid and axes and the frame are one      *)
(* record each, holding what they are made from.                           *)
(***************************************************************************)
\* the number of decimal digits of s from the index i on
RECURSIVE DigitRun(_, _)
DigitRun(s, i) ==
    IF i <= Len(s) /\ (\E d \in 1..10 : DigitChars[d] = s[i]) THEN 1 + DigitRun(s, i + 1)
    ELSE 0

RECURSIVE PowerOfTen(_)
PowerOfTen(k) == IF k = 0 THEN 1 ELSE 10 * PowerOfTen(k - 1)

\* the number read from s, whose sign ends before start, whose digits
\* before the point are whole many and after it fraction many
FloatOf(s, start, whole, fraction) ==
    IF whole + fraction = 0
    THEN IF Len(s) >= start + 7 /\ SubStr(s, start, start + 7) = <<"I", "n", "f", "i", "n", "i", "t", "y">>
         THEN NotNumber(IF s[1] = "-" THEN "-Infinity" ELSE "Infinity")
         ELSE NotNumber("NaN")
    ELSE IF s[1] = "-"
         THEN RatSub(Whole(0), Rat(numeric(SubStr(s, start, start + whole - 1)
                                           \o SubStr(s, start + whole + 1, start + whole + fraction)),
                                   PowerOfTen(fraction)))
         ELSE Rat(numeric(SubStr(s, start, start + whole - 1)
                          \o SubStr(s, start + whole + 1, start + whole + fraction)),
                  PowerOfTen(fraction))

\* m * 10^n for the exponents the model has numbers for: a few around 0
\* exactly, and those around 308 as multiples of 2^1000 (10^308 is
\* 9332636.2 * 2^1000, taken as 9332636 * 2^1000; from 2^1024 on the number
\* is Infinity)
TimesTenTo(m, n) ==
    CASE n \in 0..6 -> RatMul(m, Whole(PowerOfTen(n)))
      [] n \in (0 - 7)..(0 - 1) -> RatMul(m, Rat(1, PowerOfTen(0 - n)))
      [] n \in 302..308 ->
            HugeOf(RatMul(m, Rat(9332636, PowerOfTen(308 - n))))
      [] n = 309 -> HugeOf(RatMul(m, Whole(93326360)))

\* the exponent part at the index k of s: e or E, a sign or none, and digits
ExponentAt(s, k, m) ==
    IF k + 1 <= Len(s) /\ s[k] \in {"e", "E"} /\ m.cls = "finite"
    THEN IF s[k + 1] = "-" /\ DigitRun(s, k + 2) > 0
         THEN TimesTenTo(m, 0 - numeric(SubStr(s, k + 2, k + 1 + DigitRun(s, k + 2))))
         ELSE IF s[k + 1] = "+" /\ DigitRun(s, k + 2) > 0
         THEN TimesTenTo(m, numeric(SubStr(s, k + 2, k + 1 + DigitRun(s, k + 2))))
         ELSE IF DigitRun(s, k + 1) > 0
         THEN TimesTenTo(m, numeric(SubStr(s, k + 1, k + DigitRun(s, k + 1))))
         ELSE m
    ELSE m

FloatWithExponent(s, start, whole, fraction) ==
    ExponentAt(s, start + whole + (IF fraction > 0 THEN fraction + 1 ELSE 0),
               FloatOf(s, start, whole, fraction))

\* the digits after the point, when a point follows the digits before it
FloatFraction(s, start, whole) ==
    FloatWithExponent(s, start, whole,
                      IF start + whole <= Len(s) /\ s[start + whole] = "."
                      THEN DigitRun(s, start + whole + 1) ELSE 0)

FloatDigits(s, start) == FloatFraction(s, start, DigitRun(s, start))

FloatSign(s) ==
    IF Len(s) = 0 THEN NotNumber("NaN")
    ELSE FloatDigits(s, IF s[1] = "-" \/ s[1] = "+" THEN 2 ELSE 1)

\* Number.parseFloat: leading blanks, a sign, digits with or without a
\* fraction, an exponent or none, and whatever follows is ignored
parseFloat(text) == FloatSign(TrimStart(text))

RatMin(a, b) == IF RatLess(b, a) THEN b ELSE a

\* Number.isFinite(parsed) ? parsed : fallback
FiniteOr(parsed, fallback) == IF IsFinite(parsed) THEN parsed ELSE fallback

\* if (xMax <= xMin) the bounds are put in order and 1e-6 is added to the greater
OrderedBounds(xMin, xMax) ==
    IF AtMost(xMax, xMin)
    THEN [xMin |-> MathMin(xMin, xMax),
          xMax |-> Plus(MathMax(xMin, xMax), Rat(1, 1000000))]
    ELSE [xMin |-> xMin, xMax |-> xMax]

parseDomainBounds(domainMin, domainMax, viewport) ==
    OrderedBounds(FiniteOr(parseFloat(domainMin), viewport.xMin),
                  FiniteOr(parseFloat(domainMax), viewport.xMax))

\* the style options of an entry, kept as the fields they are made from
lineStyle(expr) == [lineWidth |-> expr.lineWidth, color |-> expr.color, dashed |-> expr.dashed]

\* the whole array is kept
downsample_KeepsAll(arr, maxPoints) == arr

downsample(arr, maxPoints) ==
    IF Len(arr) <= maxPoints THEN arr
    ELSE [i \in 1..maxPoints |-> arr[Round(Rat((i - 1) * (Len(arr) - 1), maxPoints - 1)) + 1]]

\* the two lines of a plot by formula
FormulaLines(style, domain, sampleCount, expression) ==
    <<[kind |-> "draw formula", style |-> style, domain |-> domain, samples |-> sampleCount],
      [kind |-> "plot formula", expression |-> expression]>>

\* the comment line and one line for each segment
RECURSIVE CoordinateLines(_, _, _)
CoordinateLines(style, segments, k) ==
    IF k > Len(segments) THEN <<>>
    ELSE <<[kind |-> "plot coordinates", style |-> style,
            coords |-> downsample(segments[k], 800)]>>
         \o CoordinateLines(style, segments, k + 1)

\* the lines of an entry that is exported, from the bounds it is drawn
\* between and from what the transpiler made of its tree
LinesBetween(expr, viewport, clampedDomain, symbolic) ==
    IF ~RatLess(clampedDomain.xMin, clampedDomain.xMax)
    THEN <<[kind |-> "comment skipped", rawInput |-> expr.rawInput]>>
    ELSE IF symbolic.ok /\ Truthy(symbolic.expression)
    THEN FormulaLines(lineStyle(expr), clampedDomain,
                      Max(40, Min(1200, Round(expr.samples))),
                      Interpolate(symbolic.expression))
    ELSE <<[kind |-> "comment coordinates", rawInput |-> expr.rawInput,
            reason |-> IF symbolic.reason # Null THEN symbolic.reason[1]
                       ELSE <<"f", "a", "l", "l", "b", "a", "c", "k">>]>>
         \o CoordinateLines(lineStyle(expr),
                            sampleExpression(expr.curve, clampedDomain.xMin,
                                             clampedDomain.xMax, expr.samples,
                                             viewport, DefaultMaxAbsY, 0),
                            1)

\* xMin: Math.max(domain.xMin, viewport.xMin), xMax: Math.min(domain.xMax, viewport.xMax)
ClampedDomain(domain, viewport) ==
    [xMin |-> RatMax(domain.xMin, viewport.xMin), xMax |-> RatMin(domain.xMax, viewport.xMax)]

expressionToTikz(expr, viewport) ==
    IF ~expr.visible \/ expr.evaluator = Null \/ expr.error # Null THEN <<>>
    ELSE LinesBetween(expr, viewport,
                      ClampedDomain(parseDomainBounds(expr.domainMin, expr.domainMax, viewport),
                                    viewport),
                      convertAstToTikz(expr.node))

\* expressions.forEach((expr) => body.push(...expressionToTikz(expr, viewport)))
RECURSIVE EntryLines(_, _, _)
EntryLines(expressions, viewport, k) ==
    IF k > Len(expressions) THEN <<>>
    ELSE expressionToTikz(expressions[k], viewport) \o EntryLines(expressions, viewport, k + 1)

generateTikzExport(expressions, viewport, settings) ==
    <<[kind |-> "header", viewport |-> viewport],
      [kind |-> "grid and axes", viewport |-> viewport, settings |-> settings]>>
    \o EntryLines(expressions, viewport, 1)
    \o <<[kind |-> "frame and watermark", viewport |-> viewport],
         [kind |-> "end"]>>

\* what prepareMath adds to an entry: the entry of preparedExpressions.  The
\* field curve is what the compiled evaluator computes, as the samplers
\* take it
PreparedExpression(expr, parsed, curve) ==
    [rawInput |-> expr.rawInput, visible |-> expr.visible, color |-> expr.color,
     lineWidth |-> expr.lineWidth, dashed |-> expr.dashed, samples |-> expr.samples,
     domainMin |-> expr.domainMin, domainMax |-> expr.domainMax,
     mode |-> parsed.mode, normalizedInput |-> parsed.normalizedInput,
     latex |-> parsed.latex, error |-> parsed.error, evaluator |-> parsed.evaluator,
     implicitEvaluator |-> parsed.implicitEvaluator, node |-> parsed.node,
     curve |-> curve]

\* createExpression(input) for the first row, with other samples and bounds
\* typed into the row
Expression(input, samples, domainMin, domainMax) ==
    [rawInput |-> input, visible |-> TRUE, color |-> "#ef4444", lineWidth |-> Rat(5, 4),
     dashed |-> FALSE, samples |-> samples, domainMin |-> domainMin, domainMax |-> domainMax]

\* the text that math.parse turns into node
TextOf(node) == <<"text", node>>

\* the lines of a shown entry with default bounds whose text parses into
\* node.  The curve stands for its evaluator: which kind of lines are
\* emitted does not depend on the values
LinesOf(node, viewport) ==
    IF node = Null THEN <<>>
    ELSE CHOOSE lines \in
             {expressionToTikz(expr, viewport) :
                 expr \in {PreparedExpression(
                               Expression(TextOf(node[1]), Whole(32), <<>>, <<>>),
                               ExplicitFromParse(TextOf(node[1]), Ok(node[1], 0)),
                               Evaluator("pattern", <<Whole(0)>>))}} : TRUE

DEFAULT_VIEWPORT ==
    [xMin |-> Whole(0 - 10), xMax |-> Whole(10), yMin |-> Whole(0 - 10), yMax |-> Whole(10)]

NoExport == [expressions |-> <<>>, viewport |-> DEFAULT_VIEWPORT, tikzCode |-> Null]

(***************************************************************************)
(* The 3D viewport (viewport3d.ts), in doubles.                            *)
(***************************************************************************)
MIN_SPAN == Rat(1, 1000)
MAX_SPAN == Whole(1000000)
MIN_DISTANCE == Rat(27, 20)
MAX_DISTANCE == Whole(18)
MIN_PITCH == Rat(0 - 29, 20)
MAX_PITCH == Rat(29, 20)

DEFAULT_VIEWPORT_3D ==
    [xMin |-> Whole(0 - 10), xMax |-> Whole(10), yMin |-> Whole(0 - 10), yMax |-> Whole(10),
     zMin |-> Whole(0 - 10), zMax |-> Whole(10),
     yaw |-> Rat(19, 20), pitch |-> Rat(0 - 11, 20), distance |-> Rat(67, 20)]

sanitizeAxis(min, max) ==
    IF ~IsFinite(min) \/ ~IsFinite(max) THEN [min |-> Whole(0 - 10), max |-> Whole(10)]
    ELSE LET center == Halved(Plus(min, max))
             raw == Abs(Minus(max, min))
             atLeast == IF Less(raw, MIN_SPAN) THEN MIN_SPAN ELSE raw
             span == IF Less(MAX_SPAN, atLeast) THEN MAX_SPAN ELSE atLeast
         IN  [min |-> Minus(center, Halved(span)), max |-> Plus(center, Halved(span))]

\* Math.max(lo, Math.min(hi, a)) for a finite a
Clamped(lo, hi, a) == IF Less(a, lo) THEN lo ELSE IF Less(hi, a) THEN hi ELSE a

clampViewport3D(viewport) ==
    LET x == sanitizeAxis(viewport.xMin, viewport.xMax)
        y == sanitizeAxis(viewport.yMin, viewport.yMax)
        z == sanitizeAxis(viewport.zMin, viewport.zMax)
        yaw == IF IsFinite(viewport.yaw) THEN viewport.yaw ELSE DEFAULT_VIEWPORT_3D.yaw
        pitchRaw == IF IsFinite(viewport.pitch) THEN viewport.pitch
                    ELSE DEFAULT_VIEWPORT_3D.pitch
        distanceRaw == IF IsFinite(viewport.distance) THEN viewport.distance
                       ELSE DEFAULT_VIEWPORT_3D.distance
    IN  [xMin |-> x.min, xMax |-> x.max, yMin |-> y.min, yMax |-> y.max,
         zMin |-> z.min, zMax |-> z.max, yaw |-> yaw,
         pitch |-> Clamped(MIN_PITCH, MAX_PITCH, pitchRaw),
         distance |-> Clamped(MIN_DISTANCE, MAX_DISTANCE, distanceRaw)]

rotateViewport3D(viewport, deltaYaw, deltaPitch) ==
    clampViewport3D([viewport EXCEPT !.yaw = Plus(viewport.yaw, deltaYaw),
                                     !.pitch = Plus(viewport.pitch, deltaPitch)])

zoomCamera3D(viewport, zoomFactor) ==
    clampViewport3D([viewport EXCEPT !.distance = Times(viewport.distance, zoomFactor)])

\* the bounds of one axis scaled about their centre
ScaledAxis(min, max, zoomFactor) ==
    LET center == Halved(Plus(min, max))
        half == Halved(Times(Minus(max, min), zoomFactor))
    IN  [min |-> Minus(center, half), max |-> Plus(center, half)]

\* axes is the set of the axes whose flag is set
scaleBounds3D(viewport, zoomFactor, axes) ==
    LET x == ScaledAxis(viewport.xMin, viewport.xMax, zoomFactor)
        y == ScaledAxis(viewport.yMin, viewport.yMax, zoomFactor)
        z == ScaledAxis(viewport.zMin, viewport.zMax, zoomFactor)
    IN  clampViewport3D(
            [viewport EXCEPT !.xMin = IF "x" \in axes THEN x.min ELSE @,
                             !.xMax = IF "x" \in axes THEN x.max ELSE @,
                             !.yMin = IF "y" \in axes THEN y.min ELSE @,
                             !.yMax = IF "y" \in axes THEN y.max ELSE @,
                             !.zMin = IF "z" \in axes THEN z.min ELSE @,
                             !.zMax = IF "z" \in axes THEN z.max ELSE @])

(***************************************************************************)
(* The 2D viewport.  Its numbers are doubles as those of the 3D viewport   *)
(* are.  The closure sanitizeAxis of clampViewport is, line for line, the  *)
(* function of that name of the 3D viewport, with the same two spans.      *)
(***************************************************************************)
\* a / n for a whole n > 0
Over(a, n) == Times(a, Rat(1, n))

\* { xMin: x.min, xMax: x.max, yMin: y.min, yMax: y.max }
ViewportOf(x, y) == [xMin |-> x.min, xMax |-> x.max, yMin |-> y.min, yMax |-> y.max]

clampViewport(viewport) ==
    ViewportOf(sanitizeAxis(viewport.xMin, viewport.xMax),
               sanitizeAxis(viewport.yMin, viewport.yMax))

\* the viewport moved by the two shifts
Shifted(viewport, xShift, yShift) ==
    [xMin |-> Minus(viewport.xMin, xShift), xMax |-> Minus(viewport.xMax, xShift),
     yMin |-> Plus(viewport.yMin, yShift), yMax |-> Plus(viewport.yMax, yShift)]

panByPixels(viewport, dx, dy, width, height) ==
    clampViewport(Shifted(viewport,
                          Times(Over(dx, width), Minus(viewport.xMax, viewport.xMin)),
                          Times(Over(dy, height), Minus(viewport.yMax, viewport.yMin))))

\* world + (bound - world) * zoomFactor
ZoomedBound(world, bound, zoomFactor) == Plus(world, Times(Minus(bound, world), zoomFactor))

zoomAtByAxis(viewport, worldX, worldY, zoomFactorX, zoomFactorY) ==
    clampViewport([xMin |-> ZoomedBound(worldX, viewport.xMin, zoomFactorX),
                   xMax |-> ZoomedBound(worldX, viewport.xMax, zoomFactorX),
                   yMin |-> ZoomedBound(worldY, viewport.yMin, zoomFactorY),
                   yMax |-> ZoomedBound(worldY, viewport.yMax, zoomFactorY)])

zoomAt(viewport, worldX, worldY, zoomFactor) ==
    clampViewport([xMin |-> ZoomedBound(worldX, viewport.xMin, zoomFactor),
                   xMax |-> ZoomedBound(worldX, viewport.xMax, zoomFactor),
                   yMin |-> ZoomedBound(worldY, viewport.yMin, zoomFactor),
                   yMax |-> ZoomedBound(worldY, viewport.yMax, zoomFactor)])

(***************************************************************************)
(* The frame of the 3D canvas (drawGraph3D).  Its numbers are doubles as   *)
(* those of the 3D viewport are.  A frame is the sequence of the calls     *)
(* that paint on the canvas, in the order they are made; a face and a      *)
(* segment also keep the world points they were pushed with (corners,      *)
(* ends), which the canvas does not.                                       *)
(***************************************************************************)
\* a / b, for a divisor that is not huge
Quotient(a, b) ==
    IF a.cls = "NaN" \/ b.cls = "NaN" THEN NotNumber("NaN")
    ELSE IF ~IsFinite(b) THEN IF IsFinite(a) THEN Whole(0) ELSE NotNumber("NaN")
    ELSE IF SignOf(b) = 0
    THEN IF SignOf(a) = 0 THEN NotNumber("NaN") ELSE Infinite(SignOf(a))
    ELSE IF ~IsFinite(a) THEN Infinite(SignOf(a) * SignOf(b))
    ELSE CASE b.cls = "finite" /\ a.cls = "finite" -> RatDiv(a, b)
           [] b.cls = "finite" /\ a.cls = "huge" -> HugeOf(RatDiv(Mantissa(a), b))

\* Math.cos to one decimal, at the angles the model turns the camera to
Cos(a) ==
    IF ~IsFinite(a) THEN NotNumber("NaN")
    ELSE CASE a = Whole(0) -> Whole(1)
           [] a = Rat(19, 20) -> Rat(3, 5)
           [] a = Rat(0 - 11, 20) -> Rat(9, 10)
           [] a = MAX_PITCH -> Rat(1, 10)
           [] a = MIN_PITCH -> Rat(1, 10)

\* Math.sin to one decimal, at the same angles
Sin(a) ==
    IF ~IsFinite(a) THEN NotNumber("NaN")
    ELSE CASE a = Whole(0) -> Whole(0)
           [] a = Rat(19, 20) -> Rat(4, 5)
           [] a = Rat(0 - 11, 20) -> Rat(0 - 1, 2)
           [] a = MAX_PITCH -> Whole(1)
           [] a = MIN_PITCH -> Whole(0 - 1)

\* Math.max(1e-9, max - min)
SpanOf(min, max) == MathMax(Rat(1, 1000000000), Minus(max, min))

\* what the closure createProjector returns has captured
createProjector(viewport, width, height) ==
    [xCenter |-> Halved(Plus(viewport.xMin, viewport.xMax)),
     yCenter |-> Halved(Plus(viewport.yMin, viewport.yMax)),
     zCenter |-> Halved(Plus(viewport.zMin, viewport.zMax)),
     normalize |-> Quotient(Whole(2),
                            MathMax(MathMax(SpanOf(viewport.xMin, viewport.xMax),
                                            SpanOf(viewport.yMin, viewport.yMax)),
                                    SpanOf(viewport.zMin, viewport.zMax))),
     cosYaw |-> Cos(viewport.yaw), sinYaw |-> Sin(viewport.yaw),
     cosPitch |-> Cos(viewport.pitch), sinPitch |-> Sin(viewport.pitch),
     cx |-> Halved(width), cy |-> Halved(height),
     scale |-> Times(MathMin(width, height), Rat(9, 20)),
     distance |-> viewport.distance]

\* the threshold of the test distanceFromCamera <= 0.08
NearPlane == Rat(2, 25)

\* the point returned for a distance from the camera beyond the threshold
ScreenPoint(projector, xYaw, yRot, zRot, perspective) ==
    [px |-> Plus(projector.cx, Times(Times(xYaw, perspective), projector.scale)),
     py |-> Minus(projector.cy, Times(Times(yRot, perspective), projector.scale)),
     depth |-> zRot]

\* if (distanceFromCamera <= 0.08) return null, and the point otherwise
Seen(projector, xYaw, yRot, zRot, distanceFromCamera) ==
    IF AtMost(distanceFromCamera, NearPlane) THEN Null
    ELSE Some(ScreenPoint(projector, xYaw, yRot, zRot,
                          Quotient(Whole(1), distanceFromCamera)))

\* distance - zRot
DistanceFromCamera(projector, zRot) == Minus(projector.distance, zRot)

\* yYaw * sinPitch + zYaw * cosPitch
RotatedZ(projector, yYaw, zYaw) ==
    Plus(Times(yYaw, projector.sinPitch), Times(zYaw, projector.cosPitch))

\* the rotation by the pitch
Pitched(projector, xYaw, yYaw, zYaw, zRot) ==
    Seen(projector, xYaw,
         Minus(Times(yYaw, projector.cosPitch), Times(zYaw, projector.sinPitch)),
         zRot, DistanceFromCamera(projector, zRot))

\* nx * sinYaw + ny * cosYaw
YawedY(projector, nx, ny) ==
    Plus(Times(nx, projector.sinYaw), Times(ny, projector.cosYaw))

\* the rotation by the yaw
Yawed(projector, nx, ny, nz, yYaw) ==
    Pitched(projector,
            Minus(Times(nx, projector.cosYaw), Times(ny, projector.sinYaw)),
            yYaw, nz, RotatedZ(projector, yYaw, nz))

\* (x - xCenter) * normalize
Normalized(projector, x, center) == Times(Minus(x, center), projector.normalize)

\* the closure createProjector returns, called on a world point
Projected(projector, nx, ny, nz) == Yawed(projector, nx, ny, nz, YawedY(projector, nx, ny))

project(projector, x, y, z) ==
    Projected(projector, Normalized(projector, x, projector.xCenter),
              Normalized(projector, y, projector.yCenter),
              Normalized(projector, z, projector.zCenter))

\* the distance from the camera of a world point
CameraDistance(projector, p) ==
    DistanceFromCamera(projector,
        RotatedZ(projector,
                 YawedY(projector, Normalized(projector, p.x, projector.xCenter),
                        Normalized(projector, p.y, projector.yCenter)),
                 Normalized(projector, p.z, projector.zCenter)))

WorldPoint(x, y, z) == [x |-> x, y |-> y, z |-> z]

\* segments.push({ a, b, depth: (a.depth + b.depth) * 0.5, style })
RenderSegment(a, b, style, ends) ==
    [a |-> a, b |-> b, depth |-> Halved(Plus(a.depth, b.depth)), style |-> style,
     ends |-> ends]

\* what pushSegment adds to segments, from the two projections
PushedSegment(a, b, style, ends) ==
    IF a = Null \/ b = Null THEN <<>> ELSE <<RenderSegment(a[1], b[1], style, ends)>>

pushSegment(projector, from, to, style) ==
    PushedSegment(project(projector, from.x, from.y, from.z),
                  project(projector, to.x, to.y, to.z), style, <<from, to>>)

\* faces.push({ points: [q0, q1, q2, q3], depth: (sum of the depths) * 0.25, fillStyle })
RenderFace(q0, q1, q2, q3, fillStyle, corners) ==
    [points |-> <<q0, q1, q2, q3>>,
     depth |-> Times(Plus(Plus(Plus(q0.depth, q1.depth), q2.depth), q3.depth), Rat(1, 4)),
     fillStyle |-> fillStyle, corners |-> corners]

\* what pushFace adds to faces, from the four projections
PushedFace(q0, q1, q2, q3, fillStyle, corners) ==
    IF q0 = Null \/ q1 = Null \/ q2 = Null \/ q3 = Null THEN <<>>
    ELSE <<RenderFace(q0[1], q1[1], q2[1], q3[1], fillStyle, corners)>>

pushFace(projector, p0, p1, p2, p3, fillStyle) ==
    PushedFace(project(projector, p0.x, p0.y, p0.z), project(projector, p1.x, p1.y, p1.z),
               project(projector, p2.x, p2.y, p2.z), project(projector, p3.x, p3.y, p3.z),
               fillStyle, <<p0, p1, p2, p3>>)

\* Math.pow(10, Math.floor(Math.log10(rough))): the largest power of 10 that
\* is rough at most, sought from power
RECURSIVE PowerOfTenBelow(_, _)
PowerOfTenBelow(rough, power) ==
    IF RatLess(rough, power) THEN PowerOfTenBelow(rough, RatMul(power, Rat(1, 10)))
    ELSE IF ~RatLess(rough, RatMul(power, Whole(10)))
    THEN PowerOfTenBelow(rough, RatMul(power, Whole(10)))
    ELSE power

\* the step for normalized = rough / pow10
NiceStep(normalized, pow10) ==
    IF ~RatLess(Whole(1), normalized) THEN pow10
    ELSE IF ~RatLess(Whole(2), normalized) THEN RatMul(Whole(2), pow10)
    ELSE IF ~RatLess(Whole(5), normalized) THEN RatMul(Whole(5), pow10)
    ELSE RatMul(Whole(10), pow10)

NiceStepOf(rough, pow10) == NiceStep(RatDiv(rough, pow10), pow10)

\* for a range that is not huge
getNiceTickStep(range, maxTicks) ==
    IF ~IsFinite(range) \/ ~Less(Whole(0), range) \/ maxTicks <= 0 THEN Whole(1)
    ELSE CASE range.cls = "finite" ->
              NiceStepOf(RatDiv(range, Whole(maxTicks)),
                         PowerOfTenBelow(RatDiv(range, Whole(maxTicks)), Whole(1)))

\* Math.ceil of an ordinary number
CeilOf(a) == 0 - ((0 - a.p) \div a.q)

\* Math.ceil(min / step) * step
TickStart(min, step) ==
    IF min.cls = "finite" THEN RatMul(Whole(CeilOf(RatDiv(min, step))), step)
    ELSE Times(Quotient(min, step), step)

\* the ticks pushed from t on while t <= limit, for ordinary numbers.  A tick
\* is a multiple of a step of 1e-4 at least, so t.toFixed(10) reads back as t.
RECURSIVE TickRun(_, _, _)
TickRun(t, limit, step) ==
    IF RatLess(limit, t) THEN <<>>
    ELSE <<t>> \o TickRun(RatAdd(t, step), limit, step)

\* the loop of buildTicks: null when it never ends, which is when a bound is
\* not ordinary and the test t <= max + step * 0.5 holds at the start, since
\* t += step then leaves t as it is or never takes it past the limit
TicksFrom(min, max, step, start) ==
    IF min.cls = "finite" /\ max.cls = "finite"
    THEN Some(TickRun(start, RatAdd(max, RatMul(step, Rat(1, 2))), step))
    ELSE IF AtMost(start, Plus(max, Halved(step))) THEN Null
    ELSE Some(<<>>)

TicksBy(min, max, step) == TicksFrom(min, max, step, TickStart(min, step))

buildTicks(min, max, maxTicks) == TicksBy(min, max, getNiceTickStep(Minus(max, min), maxTicks))

\* the style of a segment; dpr is window.devicePixelRatio || 1, taken as 1
SegmentStyle(color, width, dashed) == [color |-> color, width |-> width, dashed |-> dashed]

gridStyle == SegmentStyle("#d6deea", Whole(1), FALSE)
boxStyle == SegmentStyle("#b5c4d8", Whole(1), TRUE)

\* the segments of the grid: one for each tick of x, then one for each of y
RECURSIVE TickSegments(_, _, _, _, _)
TickSegments(projector, viewport, ticks, axis, k) ==
    IF k > Len(ticks) THEN <<>>
    ELSE (IF axis = "x"
          THEN pushSegment(projector, WorldPoint(ticks[k], viewport.yMin, Whole(0)),
                           WorldPoint(ticks[k], viewport.yMax, Whole(0)), gridStyle)
          ELSE pushSegment(projector, WorldPoint(viewport.xMin, ticks[k], Whole(0)),
                           WorldPoint(viewport.xMax, ticks[k], Whole(0)), gridStyle))
         \o TickSegments(projector, viewport, ticks, axis, k + 1)

\* the twelve edges of the box, in the order they are pushed
BoxEdges(x0, x1, y0, y1, z0, z1) ==
    <<<<WorldPoint(x0, y0, z0), WorldPoint(x1, y0, z0)>>,
      <<WorldPoint(x1, y0, z0), WorldPoint(x1, y1, z0)>>,
      <<WorldPoint(x1, y1, z0), WorldPoint(x0, y1, z0)>>,
      <<WorldPoint(x0, y1, z0), WorldPoint(x0, y0, z0)>>,
      <<WorldPoint(x0, y0, z1), WorldPoint(x1, y0, z1)>>,
      <<WorldPoint(x1, y0, z1), WorldPoint(x1, y1, z1)>>,
      <<WorldPoint(x1, y1, z1), WorldPoint(x0, y1, z1)>>,
      <<WorldPoint(x0, y1, z1), WorldPoint(x0, y0, z1)>>,
      <<WorldPoint(x0, y0, z0), WorldPoint(x0, y0, z1)>>,
      <<WorldPoint(x1, y0, z0), WorldPoint(x1, y0, z1)>>,
      <<WorldPoint(x1, y1, z0), WorldPoint(x1, y1, z1)>>,
      <<WorldPoint(x0, y1, z0), WorldPoint(x0, y1, z1)>>>>

\* the three axes, in the order they are pushed
AxisEdges(viewport) ==
    <<[ends |-> <<WorldPoint(viewport.xMin, Whole(0), Whole(0)),
                  WorldPoint(viewport.xMax, Whole(0), Whole(0))>>,
       style |-> SegmentStyle("#d94646", Rat(9, 5), FALSE)],
      [ends |-> <<WorldPoint(Whole(0), viewport.yMin, Whole(0)),
                  WorldPoint(Whole(0), viewport.yMax, Whole(0))>>,
       style |-> SegmentStyle("#2563eb", Rat(9, 5), FALSE)],
      [ends |-> <<WorldPoint(Whole(0), Whole(0), viewport.zMin),
                  WorldPoint(Whole(0), Whole(0), viewport.zMax)>>,
       style |-> SegmentStyle("#0f766e", Rat(9, 5), FALSE)]>>

\* a pushSegment for each edge from the k-th on
RECURSIVE EdgeSegments(_, _, _)
EdgeSegments(projector, edges, k) ==
    IF k > Len(edges) THEN <<>>
    ELSE pushSegment(projector, edges[k].ends[1], edges[k].ends[2], edges[k].style)
         \o EdgeSegments(projector, edges, k + 1)

\* Math.round(Math.sqrt(samples) * 1.35) for the whole numbers the slider gives
MeshRoot(samples) ==
    CHOOSE k \in 0..100 :
        /\ k = 0 \/ 100 * (2 * k - 1) * (2 * k - 1) * samples.q <= 729 * samples.p
        /\ 729 * samples.p < 100 * (2 * k + 1) * (2 * k + 1) * samples.q

\* Math.max(12, Math.min(80, Math.round(Math.sqrt(expr.samples) * 1.35)))
meshResolution(samples) == Max(12, Min(80, MeshRoot(samples)))

\* if (max <= min) the bounds are put in order and 1e-6 is added to the greater
SurfaceBounds(min, max) ==
    IF AtMost(max, min)
    THEN [min |-> MathMin(min, max), max |-> Plus(MathMax(min, max), Rat(1, 1000000))]
    ELSE [min |-> min, max |-> max]

parseSurfaceDomainBounds(domainMin, domainMax, fallbackMin, fallbackMax) ==
    SurfaceBounds(FiniteOr(parseFloat(domainMin), fallbackMin),
                  FiniteOr(parseFloat(domainMax), fallbackMax))

\* the point kept in the grid for the value z at (x, y), or null
GridPoint(viewport, x, y, z) ==
    IF z.cls = "null" \/ ~IsFinite(z) \/ Less(Whole(10000000), Abs(z))
       \/ Less(z, viewport.zMin) \/ Less(viewport.zMax, z)
    THEN Null
    ELSE Some(WorldPoint(x, y, z))

\* grid[yi][xi] after the loops that fill it
MeshGrid(expr, viewport, xMin, yMin, xStep, yStep, count) ==
    [yi \in 0..count |->
        [xi \in 0..count |->
            GridPoint(viewport, RatAdd(xMin, RatMul(Whole(xi), xStep)),
                      RatAdd(yMin, RatMul(Whole(yi), yStep)),
                      Apply2(expr.evaluator[1], RatAdd(xMin, RatMul(Whole(xi), xStep)),
                             RatAdd(yMin, RatMul(Whole(yi), yStep))))]]

\* a face is pushed when three of the four corners are there
CellFace_ThreeCorners(projector, p00, p10, p11, p01, fillStyle) ==
    IF p00 = Null \/ p10 = Null \/ p11 = Null THEN <<>>
    ELSE pushFace(projector, p00[1], p10[1], p11[1],
                  IF p01 = Null THEN p00[1] ELSE p01[1], fillStyle)

\* if (!p00 || !p10 || !p11 || !p01) continue; pushFace(p00, p10, p11, p01, surfaceFill)
CellFace(projector, p00, p10, p11, p01, fillStyle) ==
    IF p00 = Null \/ p10 = Null \/ p11 = Null \/ p01 = Null THEN <<>>
    ELSE pushFace(projector, p00[1], p10[1], p11[1], p01[1], fillStyle)

\* the inner loop over the cells lo..hi of the row yi; the passes are put
\* together by halves, in the order of the loop
RECURSIVE RowFaces(_, _, _, _, _, _)
RowFaces(projector, grid, fillStyle, yi, lo, hi) ==
    IF lo > hi THEN <<>>
    ELSE IF lo = hi
    THEN CellFace(projector, grid[yi][lo], grid[yi][lo + 1], grid[yi + 1][lo + 1],
                  grid[yi + 1][lo], fillStyle)
    ELSE RowFaces(projector, grid, fillStyle, yi, lo, (lo + hi) \div 2)
         \o RowFaces(projector, grid, fillStyle, yi, ((lo + hi) \div 2) + 1, hi)

\* the outer loop over the rows lo..hi of cells
RECURSIVE MeshFaces(_, _, _, _, _, _)
MeshFaces(projector, grid, count, fillStyle, lo, hi) ==
    IF lo > hi THEN <<>>
    ELSE IF lo = hi THEN RowFaces(projector, grid, fillStyle, lo, 0, count - 1)
    ELSE MeshFaces(projector, grid, count, fillStyle, lo, (lo + hi) \div 2)
         \o MeshFaces(projector, grid, count, fillStyle, ((lo + hi) \div 2) + 1, hi)

\* if (!a || !b) continue; pushSegment(a.x, a.y, a.z, b.x, b.y, b.z, style)
WireEdge(projector, a, b, style) ==
    IF a = Null \/ b = Null THEN <<>> ELSE pushSegment(projector, a[1], b[1], style)

\* the edges along x of the row yi that start at lo..hi
RECURSIVE RowWires(_, _, _, _, _, _)
RowWires(projector, grid, style, yi, lo, hi) ==
    IF lo > hi THEN <<>>
    ELSE IF lo = hi THEN WireEdge(projector, grid[yi][lo], grid[yi][lo + 1], style)
    ELSE RowWires(projector, grid, style, yi, lo, (lo + hi) \div 2)
         \o RowWires(projector, grid, style, yi, ((lo + hi) \div 2) + 1, hi)

\* the edges along x of the rows lo..hi
RECURSIVE WiresAlongX(_, _, _, _, _, _)
WiresAlongX(projector, grid, count, style, lo, hi) ==
    IF lo > hi THEN <<>>
    ELSE IF lo = hi THEN RowWires(projector, grid, style, lo, 0, count - 1)
    ELSE WiresAlongX(projector, grid, count, style, lo, (lo + hi) \div 2)
         \o WiresAlongX(projector, grid, count, style, ((lo + hi) \div 2) + 1, hi)

\* the edges along y of the column xi that start at lo..hi
RECURSIVE ColumnWires(_, _, _, _, _, _)
ColumnWires(projector, grid, style, xi, lo, hi) ==
    IF lo > hi THEN <<>>
    ELSE IF lo = hi THEN WireEdge(projector, grid[lo][xi], grid[lo + 1][xi], style)
    ELSE ColumnWires(projector, grid, style, xi, lo, (lo + hi) \div 2)
         \o ColumnWires(projector, grid, style, xi, ((lo + hi) \div 2) + 1, hi)

\* the edges along y of the columns lo..hi
RECURSIVE WiresAlongY(_, _, _, _, _, _)
WiresAlongY(projector, grid, count, style, lo, hi) ==
    IF lo > hi THEN <<>>
    ELSE IF lo = hi THEN ColumnWires(projector, grid, style, lo, 0, count - 1)
    ELSE WiresAlongY(projector, grid, count, style, lo, (lo + hi) \div 2)
         \o WiresAlongY(projector, grid, count, style, ((lo + hi) \div 2) + 1, hi)

\* rgbaFromHex(expr.color, expr.dashed ? 0.14 : 0.24), kept as its two parts
surfaceFill(expr) ==
    [color |-> expr.color, alpha |-> IF expr.dashed THEN Rat(7, 50) ELSE Rat(6, 25)]

\* what one entry adds to faces and to segments, from its grid
MeshOf(projector, expr, grid, count) ==
    [faces |-> MeshFaces(projector, grid, count, surfaceFill(expr), 0, count - 1),
     segments |-> WiresAlongX(projector, grid, count,
                              SegmentStyle(expr.color, expr.lineWidth, expr.dashed), 0, count)
                  \o WiresAlongY(projector, grid, count,
                                 SegmentStyle(expr.color, expr.lineWidth, expr.dashed), 0, count),
     grid |-> Some(grid)]

NoMesh == [faces |-> <<>>, segments |-> <<>>, grid |-> Null]

\* the entry between bounds that leave it a domain
MeshBetween(projector, expr, viewport, xMin, xMax, yMin, yMax, count) ==
    IF AtMost(xMax, xMin) \/ AtMost(yMax, yMin) THEN NoMesh
    ELSE MeshOf(projector, expr,
                MeshGrid(expr, viewport, xMin, yMin,
                         RatDiv(RatSub(xMax, xMin), Whole(count)),
                         RatDiv(RatSub(yMax, yMin), Whole(count)), count),
                count)

MeshWithin(projector, expr, viewport, xDomain, yDomain) ==
    MeshBetween(projector, expr, viewport,
                MathMax(xDomain.min, viewport.xMin), MathMin(xDomain.max, viewport.xMax),
                MathMax(yDomain.min, viewport.yMin), MathMin(yDomain.max, viewport.yMax),
                meshResolution(expr.samples))

\* the body of expressions.forEach
Mesh(projector, expr, viewport) ==
    IF ~expr.visible \/ expr.evaluator = Null \/ expr.error # Null THEN NoMesh
    ELSE MeshWithin(projector, expr, viewport,
                    parseSurfaceDomainBounds(expr.domainXMin, expr.domainXMax,
                                             viewport.xMin, viewport.xMax),
                    parseSurfaceDomainBounds(expr.domainYMin, expr.domainYMax,
                                             viewport.yMin, viewport.yMax))

RECURSIVE MeshFacesOf(_, _)
MeshFacesOf(meshes, k) ==
    IF k > Len(meshes) THEN <<>> ELSE meshes[k].faces \o MeshFacesOf(meshes, k + 1)

RECURSIVE MeshSegmentsOf(_, _)
MeshSegmentsOf(meshes, k) ==
    IF k > Len(meshes) THEN <<>> ELSE meshes[k].segments \o MeshSegmentsOf(meshes, k + 1)

\* a.depth - b.depth is below 0; a difference that is NaN counts as 0
ComesBefore(a, b) == Less(a.depth, b.depth)

\* how many of run[lo..hi] come before item, for a sorted run
RECURSIVE CountBefore(_, _, _, _)
CountBefore(run, item, lo, hi) ==
    IF lo > hi THEN lo - 1
    ELSE IF ComesBefore(run[(lo + hi) \div 2], item)
    THEN CountBefore(run, item, ((lo + hi) \div 2) + 1, hi)
    ELSE CountBefore(run, item, lo, ((lo + hi) \div 2) - 1)

\* how many of run[lo..hi] item does not come before, for a sorted run
RECURSIVE CountNotAfter(_, _, _, _)
CountNotAfter(run, item, lo, hi) ==
    IF lo > hi THEN lo - 1
    ELSE IF ComesBefore(item, run[(lo + hi) \div 2])
    THEN CountNotAfter(run, item, lo, ((lo + hi) \div 2) - 1)
    ELSE CountNotAfter(run, item, ((lo + hi) \div 2) + 1, hi)

\* where the items of two sorted runs go when the runs are made one: of two
\* items neither of which comes before the other, the one of left is first
Places(left, right) ==
    {<<i + CountBefore(right, left[i], 1, Len(right)), 0, i>> : i \in 1..Len(left)}
    \cup {<<j + CountNotAfter(left, right[j], 1, Len(left)), 1, j>> : j \in 1..Len(right)}

Placed(left, right, places) ==
    [r \in 1..(Len(left) + Len(right)) |->
        IF \E place \in places : place[1] = r /\ place[2] = 0
        THEN left[(CHOOSE place \in places : place[1] = r)[3]]
        ELSE right[(CHOOSE place \in places : place[1] = r)[3]]]

Merged(left, right) == Placed(left, right, Places(left, right))

\* the array is left in the order of the pushes
sortByDepth_Unsorted(items) == items

\* items.sort((a, b) => a.depth - b.depth): the sort is stable, and for keys
\* that are all numbers or all NaN every stable sort leaves the same array
RECURSIVE sortByDepth(_)
sortByDepth(items) ==
    IF Len(items) <= 1 THEN items
    ELSE Merged(sortByDepth(SubSeq(items, 1, Len(items) \div 2)),
                sortByDepth(SubSeq(items, (Len(items) \div 2) + 1, Len(items))))

CanvasCall(op, item) == [op |-> op, item |-> item]

\* the labels of the axes: a fillText for each end that projects
AxisLabel(text, at) ==
    IF at = Null THEN <<>> ELSE <<CanvasCall("fillText", [text |-> text, at |-> at[1]])>>

AxisLabels(projector, viewport) ==
    AxisLabel("x", project(projector, viewport.xMax, Whole(0), Whole(0)))
    \o AxisLabel("y", project(projector, Whole(0), viewport.yMax, Whole(0)))
    \o AxisLabel("z", project(projector, Whole(0), Whole(0), viewport.zMax))

\* the calls on the canvas from the two arrays as the loops left them
PaintCalls(projector, viewport, settings, faces, segments) ==
    <<CanvasCall("clearRect", Null), CanvasCall("fillRect", Null)>>
    \o [k \in 1..Len(faces) |-> CanvasCall("fill", faces[k])]
    \o [k \in 1..Len(segments) |-> CanvasCall("stroke", segments[k])]
    \o (IF settings.showAxes THEN AxisLabels(projector, viewport) ELSE <<>>)

\* the segments of the grid, the box and the axes
FrameSegments(projector, viewport, settings, xTicks, yTicks) ==
    (IF settings.showGrid
     THEN TickSegments(projector, viewport, xTicks[1], "x", 1)
          \o TickSegments(projector, viewport, yTicks[1], "y", 1)
     ELSE <<>>)
    \o (IF settings.showBox
        THEN EdgeSegments(projector,
                 [k \in 1..12 |->
                     [ends |-> BoxEdges(viewport.xMin, viewport.xMax, viewport.yMin,
                                        viewport.yMax, viewport.zMin, viewport.zMax)[k],
                      style |-> boxStyle]], 1)
        ELSE <<>>)
    \o (IF settings.showAxes THEN EdgeSegments(projector, AxisEdges(viewport), 1) ELSE <<>>)

PaintedFrom(projector, viewport, settings, meshes, xTicks, yTicks) ==
    PaintCalls(projector, viewport, settings,
               sortByDepth(MeshFacesOf(meshes, 1)),
               sortByDepth(FrameSegments(projector, viewport, settings, xTicks, yTicks)
                           \o MeshSegmentsOf(meshes, 1)))

\* the frame drawGraph3D paints and the grids it built, or null when
\* buildTicks never returns
DrawnWith(projector, expressions, viewport, settings, xTicks, yTicks, meshes) ==
    IF settings.showGrid /\ (xTicks = Null \/ yTicks = Null) THEN Null
    ELSE Some([calls |-> PaintedFrom(projector, viewport, settings, meshes, xTicks, yTicks),
               grids |-> [k \in 1..Len(meshes) |-> meshes[k].grid]])

DrawnBy(projector, expressions, viewport, settings) ==
    DrawnWith(projector, expressions, viewport, settings,
              IF settings.showGrid THEN buildTicks(viewport.xMin, viewport.xMax, 10) ELSE Null,
              IF settings.showGrid THEN buildTicks(viewport.yMin, viewport.yMax, 10) ELSE Null,
              [k \in 1..Len(expressions) |-> Mesh(projector, expressions[k], viewport)])

drawGraph3D(expressions, viewport, settings, width, height) ==
    DrawnBy(createProjector(viewport, width, height), expressions, viewport, settings)

\* the canvas before its first frame, with the settings the App starts from
NoFrame ==
    [expressions |-> <<>>,
     settings |-> [showGrid |-> TRUE, showAxes |-> TRUE, showBox |-> FALSE],
     painted |-> Null]

(***************************************************************************)
(* Editing one entry: ExpressionRow's onChange hands the new text to       *)
(* updateExpression, and the App re-prepares it (useMemo) in the same      *)
(* render.  A new entry starts empty (createExpression('')).               *)
(***************************************************************************)
MaxPad == 4

\* createExpression leaves the text of a new row empty
PrepIdle ==
    /\ rawInput = <<>>
    /\ prepared = prepareMath(<<>>)
    /\ prepared3D = prepareMath3D(<<>>)
    /\ padLeft = MaxPad

SetText(text) ==
    /\ rawInput' = text
    /\ prepared' = prepareMath(text)
    /\ prepared3D' = prepareMath3D(text)

\* the field's whole value is replaced (paste, or select-all and type)
PasteText(text) ==
    /\ SetText(text)
    /\ padLeft' = MaxPad

\* one more character at the end of the field
TypeChar(c) ==
    /\ padLeft > 0
    /\ SetText(Append(rawInput, c))
    /\ padLeft' = padLeft - 1

PrepSeeds ==
    {<<>>,
     <<"y", "=">>,
     <<"y", " ", "=", "l", "n", " ", "(", "x", ")">>,
     <<"x", "*", "*", "2", " ", "=", " ", "y">>,
     <<"(", "x", ")", "=">>}
PrepAlphabet == {"x", "y", "1", "=", "+", " "}

PrepNext ==
    /\ \/ \E text \in PrepSeeds : PasteText(text)
       \/ \E c \in PrepAlphabet : TypeChar(c)
    /\ UNCHANGED <<treeVars, callVars>>

\* texts with operators, parentheses and conditionals
OpsSeeds == {<<>>, <<"l", "n", "(", "x", ")">>, <<"x", "?", "1", ":">>}
OpsAlphabet == {"x", "1", "+", "!", "(", ")", "?", ":"}

OpsNext ==
    /\ \/ \E text \in OpsSeeds : PasteText(text)
       \/ \E c \in OpsAlphabet : TypeChar(c)
    /\ UNCHANGED <<treeVars, callVars>>

\* texts around an assignment, an array literal and an index expression
MaxAround == 2

PasteSnippet(text) ==
    /\ SetText(text)
    /\ padLeft' = MaxAround

\* one more character at the start of the field
TypeCharFront(c) ==
    /\ padLeft > 0
    /\ SetText(<<c>> \o rawInput)
    /\ padLeft' = padLeft - 1

Snippets ==
    {<<"x", "=", "1">>, <<"[", "1", ",", "2", "]">>, <<"x", "[", "0", "]">>}
AroundAlphabet == {"x", "y", "1", "+", "(", ")", " ", "=", ","}

AroundNext ==
    /\ \/ \E text \in Snippets : PasteSnippet(text)
       \/ \E c \in AroundAlphabet : TypeChar(c)
       \/ \E c \in AroundAlphabet : TypeCharFront(c)
    /\ UNCHANGED <<treeVars, callVars>>

\* texts with the two spellings normalizeInput rewrites
RewriteSeeds == {<<>>, <<"x", "*", "*", "2">>, <<"l", "n", "(", "x", ")">>}
RewriteAlphabet == {"*", "l", "n", "(", " ", "x"}

RewriteNext ==
    /\ \/ \E text \in RewriteSeeds : PasteText(text)
       \/ \E c \in RewriteAlphabet : TypeChar(c)
       \/ \E c \in RewriteAlphabet : TypeCharFront(c)
    /\ UNCHANGED <<treeVars, callVars>>

(***************************************************************************)
(* validateNode on ASTs of every node kind: a leaf, wrapped node by node.  *)
(***************************************************************************)
MaxDepth == 2

Sym(name) == Node("SymbolNode", name, <<>>)
Const(digits) == Node("ConstantNode", digits, <<>>)

Leaves == {Const(<<"1">>), Sym(<<"x">>), Sym(<<"y">>), Sym(<<"p", "i">>), Sym(<<"z">>)}
Siblings == {Const(<<"1">>), Sym(<<"z">>)}
CallNames == {<<"s", "i", "n">>, <<"l", "o", "g", "1", "0">>, <<"x">>, <<"z">>}

\* the nodes that hold t as a child
Wrappers(t) ==
    {Node("OperatorNode", <<"-">>, <<t>>),
     Node("OperatorNode", <<"!">>, <<t>>),
     Node("ParenthesisNode", <<>>, <<t>>),
     Node("BlockNode", <<>>, <<t>>),
     Node("ArrayNode", <<>>, <<t>>),
     Node("ObjectNode", <<>>, <<t>>),
     Node("FunctionAssignmentNode", <<"z">>, <<t>>),
     Node("ConditionalNode", <<>>, <<t, Const(<<"1">>), Const(<<"1">>)>>)}
    \cup {Node("FunctionNode", f, <<Sym(f), t>>) : f \in CallNames}
    \cup {Node("OperatorNode", <<"+">>, <<t, u>>) : u \in Siblings}
    \cup {Node("OperatorNode", <<"^">>, <<u, t>>) : u \in Siblings}
    \cup {Node("AssignmentNode", <<>>, <<Sym(<<"x">>), t>>)}
    \cup {Node("AccessorNode", <<>>, <<t, Node("IndexNode", <<>>, <<u>>)>>) : u \in Siblings}
    \cup {Node("RangeNode", <<>>, <<t, u>>) : u \in Siblings}

\* what prepareExplicit, prepareImplicit and prepareMath3D return once math.parse
\* has returned the node t
PreparedFromTree(t) ==
    [explicit |-> ExplicitFromParse(<<>>, Ok(t, 0)),
     implicit |-> ImplicitFromParse(<<>>, Ok(t, 0)),
     surface |-> SurfaceFromParse(<<>>, Ok(t, 0))]

\* the App as it is after its first render
NoDomains == [typed |-> <<<<>>, <<>>>>, view |-> DEFAULT_VIEWPORT, curve |-> Null, surface |-> Null]
NoDrag == [page |-> "none"]
NoLists == [page |-> "none"]

UiIdle ==
    /\ domains = NoDomains
    /\ drag = NoDrag
    /\ lists = NoLists

AppIdle ==
    /\ viewport2D = DEFAULT_VIEWPORT
    /\ frame3D = NoFrame
    /\ UiIdle

\* no evaluator closure and no sampler has been called yet
OutIdle ==
    /\ contours = NoContours
    /\ converted = NoConversion
    /\ exported = NoExport
    /\ viewport3D = DEFAULT_VIEWPORT_3D
    /\ AppIdle

CallIdle ==
    /\ evalCall = NoCall
    /\ sampling = NoSampling
    /\ OutIdle

TreeIdle ==
    /\ tree = NoNode
    /\ treeDepth = 0
    /\ treePrepared = <<>>

PrepInit == PrepIdle /\ TreeIdle /\ CallIdle

TreeInit ==
    /\ PrepIdle
    /\ CallIdle
    /\ tree \in Leaves
    /\ treeDepth = 0
    /\ treePrepared = PreparedFromTree(tree)

WrapTree ==
    /\ treeDepth < MaxDepth
    /\ \E t \in Wrappers(tree) :
          /\ tree' = t
          /\ treePrepared' = PreparedFromTree(t)
    /\ treeDepth' = treeDepth + 1

TreeNext == WrapTree /\ UNCHANGED <<prepVars, callVars>>

SpecPrep == PrepInit /\ [][PrepNext]_vars
SpecOps == PrepInit /\ [][OpsNext]_vars
SpecAround == PrepInit /\ [][AroundNext]_vars
SpecRewrite == PrepInit /\ [][RewriteNext]_vars
SpecTree == TreeInit /\ [][TreeNext]_vars

(***************************************************************************)
(* Calling the closures of a prepared entry: the renderers call them once  *)
(* per sample point.                                                       *)
(***************************************************************************)
EvalSeeds ==
    {<<"x">>, <<"y", "=", "x">>, <<"x", "=", "1">>, <<"x", "+">>, <<"l", "n", "(", "x", ")">>}

ArgNumbers == {Finite(0), NotFinite("NaN")}

ClosureOf(which) ==
    IF which = "evaluator" THEN prepared.evaluator
    ELSE IF which = "implicitEvaluator" THEN prepared.implicitEvaluator
    ELSE prepared3D.evaluator

\* one call of a closure; raw is what compiled.evaluate does in it
CallEvaluator(which, args, raw) ==
    /\ ClosureOf(which) # Null
    /\ Len(args) = ClosureOf(which)[1].arity
    /\ evalCall' =
          [which |-> which, args |-> args, raw |-> raw,
           outcome |-> IF which = "evaluator"
                       THEN evaluatorExplicit(ClosureOf(which)[1], args, raw)
                       ELSE IF which = "implicitEvaluator"
                       THEN evaluatorImplicit(ClosureOf(which)[1], args, raw)
                       ELSE evaluatorSurface(ClosureOf(which)[1], args, raw)]
    /\ UNCHANGED <<prepVars, treeVars, sampling, outVars>>

EditEntry ==
    /\ \E text \in EvalSeeds : PasteText(text)
    /\ UNCHANGED <<treeVars, callVars>>

EvalNext ==
    \/ EditEntry
    \/ \E which \in {"evaluator", "implicitEvaluator", "surfaceEvaluator"},
          args \in {<<a>> : a \in ArgNumbers} \cup (ArgNumbers \X ArgNumbers),
          raw \in EvaluateOutcomes :
          CallEvaluator(which, args, raw)

SpecEval == PrepInit /\ [][EvalNext]_vars

(***************************************************************************)
(* Sampling curves: GraphCanvas and the exporter call sampleExpression     *)
(* with the cutoff left at its default.                                    *)
(***************************************************************************)
\* the longest pattern of values an evaluator repeats
MaxPeriod == 2

PatternValues == {NoY, NotNumber("NaN"), Whole(0), Whole(9), Whole(1000001)}

RECURSIVE Patterns(_)
Patterns(len) ==
    IF len = 0 THEN {<<>>}
    ELSE {Append(pattern, v) : pattern \in Patterns(len - 1), v \in PatternValues}

PatternCurves == {Evaluator("pattern", pattern) : pattern \in UNION {Patterns(len) : len \in 1..MaxPeriod}}

Curves == {Evaluator("square", <<>>), Evaluator("pole", <<>>)} \cup PatternCurves

\* domains whose sample positions are computed exactly
Domains ==
    {<<Whole(0), Whole(64)>>, <<Whole(0 - 16), Whole(16)>>, <<Whole(990), Whole(1022)>>,
     <<Whole(0), Rat(33, 16)>>, <<Whole(5), Whole(5)>>, <<Whole(3), Whole(0 - 3)>>}

\* domains measured in the spacing of the doubles around them
CoarseDomains == {<<Whole(0), Whole(4)>>, <<Whole(0), Whole(40)>>}

SampleCounts == {Whole(10), Whole(32), Rat(65, 2), Whole(33)}

Viewports ==
    {[yMin |-> Whole(0), yMax |-> Whole(0)], [yMin |-> Whole(0), yMax |-> Whole(1)],
     [yMin |-> Whole(0 - 10), yMax |-> Whole(10)]}

ExactInputs ==
    {[evaluator |-> f, xMin |-> d[1], xMax |-> d[2], samples |-> c, viewport |-> v,
      spacing |-> 0] : f \in Curves, d \in Domains, c \in SampleCounts, v \in Viewports}

CoarseInputs ==
    {[evaluator |-> f, xMin |-> d[1], xMax |-> d[2], samples |-> c, viewport |-> v,
      spacing |-> 1] : f \in PatternCurves, d \in CoarseDomains, c \in SampleCounts,
                       v \in Viewports}

\* a call about to be made
SampleInit ==
    /\ PrepIdle
    /\ TreeIdle
    /\ evalCall = NoCall
    /\ OutIdle
    /\ sampling \in {[input |-> input, segments |-> <<>>, done |-> FALSE] :
                       input \in ExactInputs \cup CoarseInputs}

Render ==
    /\ ~sampling.done
    /\ sampling' =
          [input |-> sampling.input,
           segments |-> sampleExpression(sampling.input.evaluator, sampling.input.xMin,
                                         sampling.input.xMax, sampling.input.samples,
                                         sampling.input.viewport, DefaultMaxAbsY,
                                         sampling.input.spacing),
           done |-> TRUE]
    /\ UNCHANGED <<prepVars, treeVars, evalCall, outVars>>

SampleExact == sampling.input.spacing = 0 /\ Render

SampleCoarse == sampling.input.spacing # 0 /\ Render

SampleNext == SampleExact \/ SampleCoarse

SpecSample == SampleInit /\ [][SampleNext]_vars

(***************************************************************************)
(* Extracting contours: GraphCanvas calls sampleImplicitContours with the  *)
(* cutoff left at its default.                                             *)
(***************************************************************************)
TileValues == <<NoY, Whole(0 - 1), Whole(0), Whole(3)>>

CentreValues == {NoY, Whole(0 - 1), Whole(1)}

TileCode(q) == ((q[1] * 4 + q[2]) * 4 + q[3]) * 4 + q[4]

\* the tiles <<b, a, d, c>>, <<c, d, a, b>> and <<d, c, b, a>> put the same cells
\* on the grid as <<a, b, c, d>>: one tile of the four is drawn
TileChoices ==
    {q \in (1..4) \X (1..4) \X (1..4) \X (1..4) :
        /\ TileCode(q) <= TileCode(<<q[2], q[1], q[4], q[3]>>)
        /\ TileCode(q) <= TileCode(<<q[3], q[4], q[1], q[2]>>)
        /\ TileCode(q) <= TileCode(<<q[4], q[3], q[2], q[1]>>)}

Tiles ==
    {Evaluator2("tile", <<TileValues[q[1]], TileValues[q[2]], TileValues[q[3]],
                          TileValues[q[4]]>>, centre) :
        q \in TileChoices, centre \in CentreValues}

\* a viewport whose grid lines fall on the whole numbers at the lowest resolution
TileViewport == [xMin |-> Whole(0), xMax |-> Whole(30), yMin |-> Whole(0), yMax |-> Whole(30)]

CircleViewport ==
    [xMin |-> Whole(0 - 2), xMax |-> Whole(2), yMin |-> Whole(0 - 2), yMax |-> Whole(2)]

\* densities that give the resolutions 30, 31, 32 and 33
CircleDensities == {Whole(190), Whole(199), Whole(212), Whole(225)}

TileInputs ==
    {[evaluator |-> f, viewport |-> TileViewport, samples |-> Whole(1), digits |-> 0] :
        f \in Tiles}

CircleInputs ==
    {[evaluator |-> Evaluator2("circle", <<>>, NoY), viewport |-> CircleViewport,
      samples |-> s, digits |-> 0] : s \in CircleDensities}

\* calls computed in floating point that keeps DigitsKept binary digits: the
\* first grid line is at 5, the others are at multiples of 4 from 516 on, and
\* the field has one value on the first grid line and another on the others
DigitsKept == 8

CoarseViewport ==
    [xMin |-> Whole(5), xMax |-> Whole(15360), yMin |-> Whole(0), yMax |-> Whole(30)]

CoarseTiles ==
    {Evaluator2("tile", <<there, here, there, here>>, NoY) :
        here \in {Whole(0 - 1), Whole(1024)},
        there \in {Whole(0 - 1), Whole(3), Whole(1024), NotNumber("Infinity"),
                   Whole(200000000)}}

CoarseTileInputs ==
    {[evaluator |-> f, viewport |-> CoarseViewport, samples |-> Whole(1),
      digits |-> DigitsKept] : f \in CoarseTiles}

\* a call about to be made
ContourInit ==
    /\ PrepIdle
    /\ TreeIdle
    /\ evalCall = NoCall
    /\ sampling = NoSampling
    /\ converted = NoConversion
    /\ exported = NoExport
    /\ viewport3D = DEFAULT_VIEWPORT_3D
    /\ AppIdle
    /\ contours \in {[input |-> input, segments |-> <<>>, done |-> FALSE] :
                       input \in TileInputs \cup CircleInputs \cup CoarseTileInputs}

DrawContours ==
    /\ ~contours.done
    /\ contours' =
          [input |-> contours.input,
           segments |-> sampleImplicitContours(contours.input.evaluator,
                                               contours.input.viewport,
                                               contours.input.samples, DefaultMaxAbsValue,
                                               contours.input.digits),
           done |-> TRUE]
    /\ UNCHANGED <<prepVars, treeVars, evalCall, sampling, converted, exported, viewport3D, appVars>>

DrawTile == contours.input.evaluator.kind = "tile" /\ DrawContours

DrawCircle == contours.input.evaluator.kind = "circle" /\ DrawContours

ContourNext == DrawTile \/ DrawCircle

SpecContour == ContourInit /\ [][ContourNext]_vars

(***************************************************************************)
(* Converting ASTs: the exporters hand the node of an entry to the         *)
(* transpilers.  The ASTs grow from a leaf by wrapping.                    *)
(***************************************************************************)
MaxNest == 2

ConvLeaves ==
    {Sym(<<"x">>), Sym(<<"y">>), Sym(<<"p", "i">>), Sym(<<"e">>), Sym(<<"z">>), Const(<<"0">>), Const(<<"2">>), Const(<<>>)}

ConvSiblings == {Sym(<<"x">>), Sym(<<"z">>), Const(<<"0">>)}

ConvCalls == {<<"s", "i", "n">>, <<"a", "t", "a", "n">>, <<"s", "q", "r", "t">>, <<"l", "o", "g">>, <<"l", "n">>, <<"l", "o", "g", "1", "0">>, <<"f", "l", "o", "o", "r">>}

ConvWrappers(t) ==
    {Node("OperatorNode", <<"-">>, <<t>>),
     Node("OperatorNode", <<"+">>, <<t>>),
     Node("ParenthesisNode", <<>>, <<t>>),
     Node("ConditionalNode", <<>>, <<t, Const(<<"2">>), Const(<<"2">>)>>)}
    \cup {Node("FunctionNode", f, <<Sym(f), t>>) : f \in ConvCalls}
    \cup {Node("FunctionNode", f, <<Sym(f), t, Sym(<<"x">>)>>) : f \in {<<"s", "i", "n">>, <<"s", "q", "r", "t">>}}
    \cup {Node("OperatorNode", op, <<t, u>>) :
            op \in {<<"+">>, <<"-">>, <<"*">>, <<"/">>, <<"^">>, <<"%">>}, u \in ConvSiblings}
    \cup {Node("OperatorNode", op, <<u, t>>) : op \in {<<"+">>, <<"^">>}, u \in ConvSiblings}

\* what is put around a tree that is already nested: one of each construct
ConvOuter(t) ==
    {Node("OperatorNode", <<"-">>, <<t>>),
     Node("OperatorNode", <<"+">>, <<t>>),
     Node("ParenthesisNode", <<>>, <<t>>),
     Node("FunctionNode", <<"s", "i", "n">>, <<Sym(<<"s", "i", "n">>), t>>),
     Node("FunctionNode", <<"l", "o", "g", "1", "0">>, <<Sym(<<"l", "o", "g", "1", "0">>), t>>),
     Node("FunctionNode", <<"f", "l", "o", "o", "r">>, <<Sym(<<"f", "l", "o", "o", "r">>), t>>),
     Node("OperatorNode", <<"+">>, <<t, Sym(<<"x">>)>>),
     Node("OperatorNode", <<"^">>, <<Sym(<<"z">>), t>>)}

ConversionOf(node, nest) ==
    [node |-> node, nest |-> nest, tikz |-> convertAstToTikz(node),
     tikz3D |-> convertAstToTikz3D(node), lines |-> LinesOf(node, DEFAULT_VIEWPORT)]

\* an entry that failed to parse has the node null
ConvertInit ==
    /\ PrepIdle
    /\ TreeIdle
    /\ evalCall = NoCall
    /\ sampling = NoSampling
    /\ contours = NoContours
    /\ exported = NoExport
    /\ viewport3D = DEFAULT_VIEWPORT_3D
    /\ AppIdle
    /\ converted \in {ConversionOf(node, 0) : node \in {Null} \cup {Some(t) : t \in ConvLeaves}}

WrapNode ==
    /\ converted.node # Null
    /\ converted.nest < MaxNest
    /\ \E t \in (IF converted.nest = 0 THEN ConvWrappers(converted.node[1])
                ELSE ConvOuter(converted.node[1])) :
          converted' = ConversionOf(Some(t), converted.nest + 1)
    /\ UNCHANGED <<prepVars, treeVars, evalCall, sampling, contours, exported, viewport3D, appVars>>

ConvertNext == WrapNode

SpecConvert == ConvertInit /\ [][ConvertNext]_vars

(***************************************************************************)
(* Exporting: the App keeps the entries and the viewport, the rows edit    *)
(* an entry or hide it, and the export is generated from the prepared      *)
(* entries.                                                                *)
(***************************************************************************)
Paren(t) == Node("ParenthesisNode", <<>>, <<t>>)
Binary(op, l, r) == Node("OperatorNode", op, <<l, r>>)
Call(f, t) == Node("FunctionNode", f, <<Sym(f), t>>)

XSquared == Binary(<<"^">>, Sym(<<"x">>), Const(<<"2">>))
SinX == Call(<<"s", "i", "n">>, Sym(<<"x">>))
\* 1/(x-1)+0*sin(x)
PoleAndSine ==
    Binary(<<"+">>, Binary(<<"/">>, Const(<<"1">>), Paren(Binary(<<"-">>, Sym(<<"x">>), Const(<<"1">>)))),
           Binary(<<"*">>, Const(<<"0">>), SinX))
\* (x^2+y^2) - (1), what prepareImplicit parses for x^2+y^2=1
CircleDifference ==
    Binary(<<"-">>,
           Paren(Binary(<<"+">>, XSquared, Binary(<<"^">>, Sym(<<"y">>), Const(<<"2">>)))),
           Paren(Const(<<"1">>)))

\* the entries a row can be edited into: the text, what math.parse makes of
\* it and what its evaluator computes.  The curve given for sin(x) is a
\* bounded curve in its place: the lines depend on the values only through
\* the segments they fall into
Explicit(input, node, curve, samples, domainMin, domainMax) ==
    PreparedExpression(Expression(input, samples, domainMin, domainMax),
                       ExplicitFromParse(input, Ok(node, 0)), curve)

EntryChoices ==
    {Explicit(<<"x", "^", "2">>, XSquared, Evaluator("square", <<>>), Whole(500), <<>>, <<>>),
     Explicit(<<"x", "^", "2">>, XSquared, Evaluator("square", <<>>), Whole(500), <<"-", "2">>, <<"2", ".", "5">>),
     Explicit(<<"x", "^", "2">>, XSquared, Evaluator("square", <<>>), Whole(500), <<"2", "0">>, <<>>),
     Explicit(<<"s", "i", "n", "(", "x", ")">>, SinX, Evaluator("pattern", <<Whole(0), Whole(1)>>), Whole(500),
              <<>>, <<>>),
     Explicit(<<"x", "^", "2", "+", "0">>, Binary(<<"+">>, XSquared, Const(<<"0">>)), Evaluator("square", <<>>),
              Whole(32), <<>>, <<>>),
     Explicit(<<"0">>, Const(<<"0">>), Evaluator("pattern", <<Whole(0)>>), Whole(32), <<>>, <<>>),
     Explicit(<<"1", "/", "(", "x", "-", "1", ")", "+", "0", "*", "s", "i", "n", "(", "x", ")">>, PoleAndSine, Evaluator("pole", <<>>), Whole(1700),
              <<"0">>, <<"2">>),
     PreparedExpression(Expression(<<"x", "+">>, Whole(500), <<>>, <<>>),
                        prepareExplicit(<<"x", "+">>),
                        Evaluator("none", <<>>)),
     PreparedExpression(Expression(<<"x", "^", "2", "+", "y", "^", "2", "=", "1">>, Whole(500), <<>>, <<>>),
                        ImplicitFromParse(<<"x", "^", "2", "+", "y", "^", "2", "=", "1">>,
                                          Ok(CircleDifference, 0)),
                        Evaluator("none", <<>>))}

\* INITIAL_EXPRESSIONS, prepared
ExportInit ==
    /\ PrepIdle
    /\ TreeIdle
    /\ evalCall = NoCall
    /\ sampling = NoSampling
    /\ contours = NoContours
    /\ converted = NoConversion
    /\ exported =
          [expressions |->
              <<Explicit(<<"x", "^", "2">>, XSquared, Evaluator("square", <<>>), Whole(500), <<>>, <<>>),
                [Explicit(<<"s", "i", "n", "(", "x", ")">>, SinX,
                          Evaluator("pattern", <<Whole(0), Whole(1)>>), Whole(500), <<>>, <<>>)
                    EXCEPT !.color = "#2563eb"]>>,
           viewport |-> DEFAULT_VIEWPORT, tikzCode |-> Null]
    /\ viewport3D = DEFAULT_VIEWPORT_3D
    /\ AppIdle

\* updateExpression with a new text, sample count and bounds: the row keeps
\* its place, its colour and whether it is shown
UpdateEntry(k, entry) ==
    /\ k \in 1..Len(exported.expressions)
    /\ exported' =
          [exported EXCEPT !.expressions[k] =
                               [entry EXCEPT !.visible = exported.expressions[k].visible,
                                             !.color = exported.expressions[k].color],
                           !.tikzCode = Null]
    /\ UNCHANGED <<prepVars, treeVars, evalCall, sampling, contours, converted, viewport3D, appVars>>

\* updateExpression(id, { visible: !expr.visible })
ToggleVisible(k) ==
    /\ k \in 1..Len(exported.expressions)
    /\ exported' =
          [exported EXCEPT !.expressions[k].visible = ~exported.expressions[k].visible,
                           !.tikzCode = Null]
    /\ UNCHANGED <<prepVars, treeVars, evalCall, sampling, contours, converted, viewport3D, appVars>>

\* the render that computes tikzCode from the entries
ExportTikz ==
    /\ exported.tikzCode = Null
    /\ exported' =
          [exported EXCEPT !.tikzCode =
              Some(generateTikzExport(exported.expressions, exported.viewport,
                                      [showGrid |-> TRUE, showAxes |-> TRUE,
                                       showTicks |-> TRUE]))]
    /\ UNCHANGED <<prepVars, treeVars, evalCall, sampling, contours, converted, viewport3D, appVars>>

ExportNext ==
    \/ \E k \in 1..2, entry \in EntryChoices : UpdateEntry(k, entry)
    \/ \E k \in 1..2 : ToggleVisible(k)
    \/ ExportTikz

SpecExport == ExportInit /\ [][ExportNext]_vars

(***************************************************************************)
(* Moving the 3D view: the App keeps viewport3D, the canvas rotates it by  *)
(* dragging and zooms or scales it by the wheel, the controls bar submits  *)
(* bounds and resets the view.                                             *)
(***************************************************************************)
View3DInit ==
    /\ PrepIdle
    /\ TreeIdle
    /\ evalCall = NoCall
    /\ sampling = NoSampling
    /\ contours = NoContours
    /\ converted = NoConversion
    /\ exported = NoExport
    /\ viewport3D = DEFAULT_VIEWPORT_3D
    /\ AppIdle

Others3D == <<prepVars, treeVars, evalCall, sampling, contours, converted, exported, appVars>>

\* the largest yaw the model turns the view to
MaxYaw == 1

Deltas == {<<Whole(1), Whole(2)>>, <<Whole(0 - 1), Whole(0 - 2)>>,
           <<NotNumber("NaN"), Whole(0)>>, <<Whole(0), NotNumber("-Infinity")>>}

ZoomFactors == {Whole(0), Whole(4), NotNumber("NaN"), Huge(1, 1)}

ScaleFactors == {Whole(0), Whole(0 - 1), NotNumber("Infinity"), Huge(1, 1)}

\* what Number.parseFloat makes of the two fields of an axis
TypedBounds == {<<Whole(0 - 10), Whole(10)>>, <<Huge(1, 1), Huge(2, 1)>>}

\* fields that submitBounds rejects
RejectedBounds == {<<NotNumber("NaN"), Whole(10)>>, <<Whole(10), Whole(10)>>}

\* onViewportChange(rotateViewport3D(viewport, dx * 0.009, -dy * 0.009)),
\* where onViewportChange is (next) => setViewport3D(clampViewport3D(next))
Rotate(deltaYaw, deltaPitch) ==
    /\ \E next \in {rotateViewport3D(viewport3D, deltaYaw, deltaPitch)} :
          /\ ~Less(Whole(MaxYaw), Abs(next.yaw))
          /\ viewport3D' = clampViewport3D(next)
    /\ UNCHANGED Others3D

\* onViewportChange(zoomCamera3D(viewport, factor))
ZoomCamera(zoomFactor) ==
    /\ \E next \in {zoomCamera3D(viewport3D, zoomFactor)} :
          viewport3D' = clampViewport3D(next)
    /\ UNCHANGED Others3D

\* onViewportChange(scaleBounds3D(viewport, factor, { x: true })), or y, or z
ScaleBounds(zoomFactor, axis) ==
    /\ \E next \in {scaleBounds3D(viewport3D, zoomFactor, {axis})} :
          viewport3D' = clampViewport3D(next)
    /\ UNCHANGED Others3D

\* submitBounds of the controls bar, and onViewportSubmit
SubmitBounds(x, y, z) ==
    /\ viewport3D' =
          IF \E b \in {x, y, z} : ~IsFinite(b[1]) \/ ~IsFinite(b[2]) \/ ~Less(b[1], b[2])
          THEN viewport3D
          ELSE clampViewport3D([viewport3D EXCEPT !.xMin = x[1], !.xMax = x[2],
                                                  !.yMin = y[1], !.yMax = y[2],
                                                  !.zMin = z[1], !.zMax = z[2]])
    /\ UNCHANGED Others3D

\* onResetView
ResetView ==
    /\ viewport3D' = DEFAULT_VIEWPORT_3D
    /\ UNCHANGED Others3D

View3DNext ==
    \/ \E d \in Deltas : Rotate(d[1], d[2])
    \/ \E f \in ZoomFactors : ZoomCamera(f)
    \/ \E f \in ScaleFactors, axis \in {"x", "y", "z"} : ScaleBounds(f, axis)
    \/ \E x \in TypedBounds \cup RejectedBounds, y \in TypedBounds, z \in TypedBounds :
          SubmitBounds(x, y, z)
    \/ ResetView

SpecView3D == View3DInit /\ [][View3DNext]_vars

(***************************************************************************)
(* The 2D viewport of the App: GraphCanvas hands what panByPixels, zoomAt  *)
(* and zoomAtByAxis return to onViewportChange, ControlsBar hands the      *)
(* bounds typed to onViewportSubmit, and both are clamped once more by the *)
(* App before they are kept.                                               *)
(***************************************************************************)
View2DInit ==
    /\ PrepIdle
    /\ TreeIdle
    /\ evalCall = NoCall
    /\ sampling = NoSampling
    /\ contours = NoContours
    /\ converted = NoConversion
    /\ exported = NoExport
    /\ viewport3D = DEFAULT_VIEWPORT_3D
    /\ AppIdle

Others2D ==
    <<prepVars, treeVars, evalCall, sampling, contours, converted, exported, viewport3D,
      frame3D, uiVars>>

\* the farthest bound from which the model still pans and zooms
MaxReach == 20

\* the side of the canvas in pixels: useState({ width: 560, height: 560 })
CanvasSide == 560

\* a whole number of ordinary size no farther from 0 than MaxReach
WithinReach(a) == a.cls = "finite" /\ a.q = 1 /\ ~RatLess(Whole(MaxReach), RatAbs(a))

\* an ordinary number no farther from 0 than MaxReach
Near(a) == a.cls = "finite" /\ ~RatLess(Whole(MaxReach), RatAbs(a))

\* the viewports the model zooms
Zoomable(viewport) ==
    /\ Near(viewport.xMin) /\ Near(viewport.xMax)
    /\ Near(viewport.yMin) /\ Near(viewport.yMax)

\* the viewports the model pans
Pannable(viewport) ==
    /\ WithinReach(viewport.xMin) /\ WithinReach(viewport.xMax)
    /\ WithinReach(viewport.yMin) /\ WithinReach(viewport.yMax)

PixelDeltas == {<<Whole(280), Whole(0)>>, <<Whole(0), Whole(0 - 280)>>,
                <<NotNumber("NaN"), Whole(0)>>, <<Huge(1, 1), NotNumber("Infinity")>>}

Anchors == {<<Whole(0), Whole(0)>>, <<Whole(5), Whole(0 - 5)>>}

Factors == {Whole(0), Whole(0 - 1), NotNumber("NaN"), NotNumber("Infinity"), Huge(1, 1)}

TypedBounds2D ==
    {[xMin |-> Whole(0 - 1), xMax |-> Whole(1), yMin |-> Whole(0), yMax |-> Whole(5000000)],
     [xMin |-> Huge(1, 1), xMax |-> Huge(2, 1), yMin |-> Whole(0 - 10), yMax |-> Whole(10)]}

RejectedBounds2D ==
    {[xMin |-> NotNumber("NaN"), xMax |-> Whole(1), yMin |-> Whole(0), yMax |-> Whole(1)],
     [xMin |-> Whole(0 - 1), xMax |-> Whole(1), yMin |-> Whole(3), yMax |-> Whole(3)]}

\* onMouseMove while dragging
Pan2D(dx, dy) ==
    /\ Pannable(viewport2D)
    /\ \E next \in {panByPixels(viewport2D, dx, dy, CanvasSide, CanvasSide)} :
          viewport2D' = clampViewport(next)
    /\ UNCHANGED Others2D

\* onWheel with neither or both of the shift and alt keys held
Zoom2D(worldX, worldY, factor) ==
    /\ Zoomable(viewport2D)
    /\ \E next \in {zoomAt(viewport2D, worldX, worldY, factor)} :
          viewport2D' = clampViewport(next)
    /\ UNCHANGED Others2D

\* onWheel with the shift key (x only) or the alt key (y only) held
ZoomAxis2D(worldX, worldY, factorX, factorY) ==
    /\ Zoomable(viewport2D)
    /\ \E next \in {zoomAtByAxis(viewport2D, worldX, worldY, factorX, factorY)} :
          viewport2D' = clampViewport(next)
    /\ UNCHANGED Others2D

\* submitBounds of ControlsBar: bounds that are not finite or not in order
\* are refused with a message and the viewport is kept
SubmitBounds2D(parsed) ==
    /\ viewport2D' =
          IF \/ ~IsFinite(parsed.xMin) \/ ~IsFinite(parsed.xMax)
             \/ ~IsFinite(parsed.yMin) \/ ~IsFinite(parsed.yMax)
             \/ ~Less(parsed.xMin, parsed.xMax) \/ ~Less(parsed.yMin, parsed.yMax)
          THEN viewport2D
          ELSE clampViewport(parsed)
    /\ UNCHANGED Others2D

\* onResetView
ResetView2D ==
    /\ viewport2D' = DEFAULT_VIEWPORT
    /\ UNCHANGED Others2D

View2DNext ==
    \/ \E d \in PixelDeltas : Pan2D(d[1], d[2])
    \/ \E a \in Anchors, f \in Factors : Zoom2D(a[1], a[2], f)
    \/ \E a \in Anchors, f \in Factors : ZoomAxis2D(a[1], a[2], f, Whole(1))
    \/ \E a \in Anchors, f \in Factors : ZoomAxis2D(a[1], a[2], Whole(1), f)
    \/ \E parsed \in TypedBounds2D \cup RejectedBounds2D : SubmitBounds2D(parsed)
    \/ ResetView2D

SpecView2D == View2DInit /\ [][View2DNext]_vars

(***************************************************************************)
(* Painting the 3D canvas: GraphCanvas3D draws a frame in an effect after  *)
(* every render in which the entries, the settings or the viewport         *)
(* changed; the effect has run before the next event is handled.  The      *)
(* canvas is a square of CanvasSide3D pixels.                              *)
(***************************************************************************)
\* useState({ width: 640, height: 640 })
CanvasSide3D == 640

\* an entry as createExpression3D makes it, prepared, with the mesh slider at
\* its lowest; the closure is the model's x^2 + y^2 - 1
Paraboloid ==
    [visible |-> TRUE, evaluator |-> Some(Evaluator2("circle", <<>>, NoY)), error |-> Null,
     domainXMin |-> <<>>, domainXMax |-> <<>>, domainYMin |-> <<>>, domainYMax |-> <<>>,
     samples |-> Whole(80), color |-> "#ef4444", lineWidth |-> Rat(9, 5), dashed |-> FALSE]

\* a surface that has a value on every other row of whole points only
StripedSurface ==
    [Paraboloid EXCEPT
        !.evaluator = Some(Evaluator2("tile", <<Whole(1), Whole(2), NotNumber("NaN"), NoY>>,
                                      NotNumber("Infinity"))),
        !.domainXMin = <<"-", "6">>, !.domainXMax = <<"6">>,
        !.domainYMin = <<"-", "6">>, !.domainYMax = <<"6">>,
        !.color = "#2563eb"]

\* the lists of prepared entries the canvas is handed
SurfaceLists ==
    {<<Paraboloid>>,
     <<StripedSurface, [StripedSurface EXCEPT !.samples = Whole(4200), !.dashed = TRUE]>>,
     <<[Paraboloid EXCEPT !.visible = FALSE],
       [Paraboloid EXCEPT !.evaluator = Null,
                              !.error = Some(<<"U", "n", "d", "e", "f", "i", "n", "e", "d">>)],
       [Paraboloid EXCEPT !.domainXMin = <<"-", "3">>, !.domainXMax = <<"3">>,
                              !.samples = Whole(100), !.dashed = TRUE]>>}

\* what Number.parseFloat makes of the six fields of the controls bar
TypedFrames ==
    {<<<<Whole(0 - 10), Whole(10)>>, <<Whole(0 - 10), Whole(10)>>, <<Whole(0), Whole(5)>>>>,
     <<<<Huge(10000000, 1), Huge(16000000, 1)>>, <<Whole(0 - 10), Whole(10)>>,
       <<Whole(0 - 10), Whole(10)>>>>}

OthersFrame ==
    <<prepVars, treeVars, evalCall, sampling, contours, converted, exported, viewport2D, uiVars>>

Frame3DInit ==
    /\ PrepIdle
    /\ TreeIdle
    /\ evalCall = NoCall
    /\ sampling = NoSampling
    /\ contours = NoContours
    /\ converted = NoConversion
    /\ exported = NoExport
    /\ viewport3D = DEFAULT_VIEWPORT_3D
    /\ viewport2D = DEFAULT_VIEWPORT
    /\ UiIdle
    /\ frame3D = [NoFrame EXCEPT !.expressions = <<Paraboloid>>]

\* the effect: drawGraph3D(canvas, expressions, viewport, settings)
Paint ==
    /\ frame3D.painted = Null
    /\ \E drawn \in {drawGraph3D(frame3D.expressions, viewport3D, frame3D.settings,
                                 Whole(CanvasSide3D), Whole(CanvasSide3D))} :
          /\ drawn # Null
          /\ frame3D' = [frame3D EXCEPT !.painted = drawn]
    /\ UNCHANGED <<viewport3D, OthersFrame>>

\* onSettingsChange({ showGrid: checked }), or showAxes, or showBox
ToggleSetting(key) ==
    /\ frame3D.painted # Null
    /\ frame3D' = [frame3D EXCEPT !.settings[key] = ~frame3D.settings[key],
                                  !.painted = Null]
    /\ UNCHANGED <<viewport3D, OthersFrame>>

\* the entries are edited, or an example is loaded
ShowSurfaces(expressions) ==
    /\ frame3D.painted # Null
    /\ expressions # frame3D.expressions
    /\ frame3D' = [frame3D EXCEPT !.expressions = expressions, !.painted = Null]
    /\ UNCHANGED <<viewport3D, OthersFrame>>

\* the view the App keeps is replaced and the canvas rendered again
ViewChanged(next) ==
    /\ frame3D.painted # Null
    /\ next # viewport3D
    /\ viewport3D' = next
    /\ frame3D' = [frame3D EXCEPT !.painted = Null]
    /\ UNCHANGED OthersFrame

\* submitBounds of the controls bar, and onViewportSubmit
FrameBounds(x, y, z) ==
    /\ \A b \in {x, y, z} : IsFinite(b[1]) /\ IsFinite(b[2]) /\ Less(b[1], b[2])
    /\ \E next \in {clampViewport3D([viewport3D EXCEPT !.xMin = x[1], !.xMax = x[2],
                                                        !.yMin = y[1], !.yMax = y[2],
                                                        !.zMin = z[1], !.zMax = z[2]])} :
          ViewChanged(next)

\* onWheel: onViewportChange(zoomCamera3D(viewport, factor))
FrameZoom(zoomFactor) ==
    \E next \in {clampViewport3D(zoomCamera3D(viewport3D, zoomFactor))} : ViewChanged(next)

\* onResetView
FrameReset == ViewChanged(DEFAULT_VIEWPORT_3D)

Frame3DNext ==
    \/ Paint
    \/ \E key \in {"showGrid", "showAxes", "showBox"} : ToggleSetting(key)
    \/ \E expressions \in SurfaceLists : ShowSurfaces(expressions)
    \/ \E typed \in TypedFrames : FrameBounds(typed[1], typed[2], typed[3])
    \/ FrameZoom(Whole(0))
    \/ FrameReset

SpecFrame3D == Frame3DInit /\ [][Frame3DNext]_vars

(***************************************************************************)
(* The bounds of an entry: the two fields of its row hold texts, and each  *)
(* canvas parses them against its viewport when it draws the entry.        *)
(***************************************************************************)
\* what the two fields can hold: nothing, no number, numbers of ordinary
\* size, numbers near Number.MAX_VALUE and beyond it
DomainTexts ==
    {<<>>,
     <<"x">>,
     <<"0">>,
     <<"3">>,
     <<"-", "2", ".", "5">>,
     <<"1", "e", "-", "7">>,
     <<"1", "e", "3", "0", "8">>,
     <<"-", "1", "e", "3", "0", "8">>,
     <<"2", "e", "3", "0", "8">>,
     <<"I", "n", "f", "i", "n", "i", "t", "y">>}

\* viewports with xMin < xMax
DomainViews ==
    {DEFAULT_VIEWPORT,
     [DEFAULT_VIEWPORT EXCEPT !.xMin = Whole(3), !.xMax = Rat(3001, 1000)],
     [DEFAULT_VIEWPORT EXCEPT !.xMin = Whole(0 - 1000), !.xMax = Whole(0)]}

OthersDomains ==
    <<prepVars, treeVars, evalCall, sampling, contours, converted, exported, viewport3D,
      viewport2D, frame3D, drag, lists>>

DomainsInit ==
    /\ PrepIdle
    /\ TreeIdle
    /\ CallIdle

\* onChange of the fields x min and x max of a row
TypeDomain(domainMin, domainMax) ==
    /\ domains' = [domains EXCEPT !.typed = <<domainMin, domainMax>>,
                                  !.curve = Null, !.surface = Null]
    /\ UNCHANGED OthersDomains

\* the viewport changes
MoveView(view) ==
    /\ view # domains.view
    /\ domains' = [domains EXCEPT !.view = view, !.curve = Null, !.surface = Null]
    /\ UNCHANGED OthersDomains

\* GraphCanvas draws the entry
DrawCurveDomain ==
    /\ domains.curve = Null
    /\ domains' = [domains EXCEPT !.curve =
                      Some(parseDomainBounds(domains.typed[1], domains.typed[2], domains.view))]
    /\ UNCHANGED OthersDomains

\* GraphCanvas3D draws the entry
DrawSurfaceDomain ==
    /\ domains.surface = Null
    /\ domains' = [domains EXCEPT !.surface =
                      Some(parseSurfaceDomainBounds(domains.typed[1], domains.typed[2],
                                                    domains.view.xMin, domains.view.xMax))]
    /\ UNCHANGED OthersDomains

DomainsNext ==
    \/ \E domainMin \in DomainTexts, domainMax \in DomainTexts : TypeDomain(domainMin, domainMax)
    \/ \E view \in DomainViews : MoveView(view)
    \/ DrawCurveDomain
    \/ DrawSurfaceDomain

SpecDomains == DomainsInit /\ [][DomainsNext]_vars

(***************************************************************************)
(* Dragging on a canvas.  GraphCanvas and GraphCanvas3D keep draggingRef   *)
(* and lastPosRef, and an effect with the dependency viewport installs the *)
(* window listeners; the listener onMouseMove works with the viewport of   *)
(* the render whose effect installed it.  onViewportChange sets the state  *)
(* of the App; the component renders with the new viewport, and its effect *)
(* replaces the listeners, some time later.  A drag record also notes, for *)
(* the claims, the viewport at the last mouse-down and the sum of the      *)
(* deltas the moves of the drag reported.                                  *)
(***************************************************************************)
\* the most mouse moves the model handles during drags
MaxMoves == 3

\* where the pointer is reported, in pixels
Pointers == {[x |-> x, y |-> y] : x \in {0, 28, 56}, y \in {0, 28}}

DragOn(page, viewport) ==
    [page |-> page, dragging |-> FALSE, lastPos |-> [x |-> 0, y |-> 0], bound |-> viewport,
     down |-> viewport, total |-> [x |-> 0, y |-> 0], moves |-> 0]

OthersDrag ==
    <<prepVars, treeVars, evalCall, sampling, contours, converted, exported, frame3D,
      domains, lists>>

\* the page shown is the 2D one or, with the hash #3d, the 3D one
DragInit ==
    /\ PrepIdle
    /\ TreeIdle
    /\ evalCall = NoCall
    /\ sampling = NoSampling
    /\ contours = NoContours
    /\ converted = NoConversion
    /\ exported = NoExport
    /\ viewport3D = DEFAULT_VIEWPORT_3D
    /\ viewport2D = DEFAULT_VIEWPORT
    /\ frame3D = NoFrame
    /\ domains = NoDomains
    /\ lists = NoLists
    /\ drag \in {DragOn("2d", DEFAULT_VIEWPORT), DragOn("3d", DEFAULT_VIEWPORT_3D)}

\* onMouseDown of the canvas
MouseDown(pos) ==
    /\ drag' = [drag EXCEPT !.dragging = TRUE, !.lastPos = pos,
                            !.down = IF drag.page = "2d" THEN viewport2D ELSE viewport3D,
                            !.total = [x |-> 0, y |-> 0]]
    /\ UNCHANGED <<viewport2D, viewport3D, OthersDrag>>

\* onMouseUp of the window
MouseUp ==
    /\ drag.dragging
    /\ drag' = [drag EXCEPT !.dragging = FALSE]
    /\ UNCHANGED <<viewport2D, viewport3D, OthersDrag>>

\* what onMouseMove writes to the refs, and what the model notes
Moved(pos) ==
    [drag EXCEPT !.lastPos = pos,
                 !.total = [x |-> drag.total.x + (pos.x - drag.lastPos.x),
                            y |-> drag.total.y + (pos.y - drag.lastPos.y)],
                 !.moves = drag.moves + 1]

\* onMouseMove of GraphCanvas
MouseMove2D(pos) ==
    /\ drag.page = "2d"
    /\ IF ~drag.dragging THEN UNCHANGED <<drag, viewport2D>>
       ELSE /\ drag.moves < MaxMoves
            /\ drag' = Moved(pos)
            /\ \E next \in {panByPixels(drag.bound, Whole(pos.x - drag.lastPos.x),
                                         Whole(pos.y - drag.lastPos.y),
                                         CanvasSide, CanvasSide)} :
                  viewport2D' = clampViewport(next)
    /\ UNCHANGED <<viewport3D, OthersDrag>>

\* onMouseMove of GraphCanvas3D
MouseMove3D(pos) ==
    /\ drag.page = "3d"
    /\ IF ~drag.dragging THEN UNCHANGED <<drag, viewport3D>>
       ELSE /\ drag.moves < MaxMoves
            /\ drag' = Moved(pos)
            /\ \E next \in {rotateViewport3D(drag.bound,
                                              Rat(9 * (pos.x - drag.lastPos.x), 1000),
                                              Rat(0 - 9 * (pos.y - drag.lastPos.y), 1000))} :
                  viewport3D' = clampViewport3D(next)
    /\ UNCHANGED <<viewport2D, OthersDrag>>

\* GraphCanvas renders with the viewport of the App; its effect installs
\* listeners that hold it
Rerender2D ==
    /\ drag.page = "2d"
    /\ drag.bound # viewport2D
    /\ drag' = [drag EXCEPT !.bound = viewport2D]
    /\ UNCHANGED <<viewport2D, viewport3D, OthersDrag>>

\* the same for GraphCanvas3D
Rerender3D ==
    /\ drag.page = "3d"
    /\ drag.bound # viewport3D
    /\ drag' = [drag EXCEPT !.bound = viewport3D]
    /\ UNCHANGED <<viewport2D, viewport3D, OthersDrag>>

DragNext ==
    \/ \E pos \in Pointers : MouseDown(pos)
    \/ MouseUp
    \/ \E pos \in Pointers : MouseMove2D(pos)
    \/ \E pos \in Pointers : MouseMove3D(pos)
    \/ Rerender2D
    \/ Rerender3D

SpecDrag == DragInit /\ [][DragNext]_vars

(***************************************************************************)
(* The lists of entries (the App).  The counters expressionCounter and     *)
(* expression3DCounter belong to the module and are never reset; an id is  *)
(* the text expr-N or surface-N.  Every handler hands setExpressions an    *)
(* updater, so the handlers of one list act one after the other.  Of an    *)
(* entry the model keeps id, rawInput, visible and color.                  *)
(***************************************************************************)
COLORS == <<"#0f766e", "#ef4444", "#2563eb", "#d97706", "#7c3aed", "#0891b2", "#dc2626">>

\* the most ids the model lets a counter hand out
MaxCreated == 4

\* nextExpressionId and nextExpression3DId, once the counter is raised
ExpressionId(counter) == <<"e", "x", "p", "r", "-">> \o Decimal(counter)
Expression3DId(counter) == <<"s", "u", "r", "f", "a", "c", "e", "-">> \o Decimal(counter)

\* createExpression(input) when the counter was before
createExpression(before, input) ==
    [id |-> ExpressionId(before + 1), rawInput |-> input, visible |-> TRUE,
     color |-> COLORS[((before + 1) % Len(COLORS)) + 1]]

createExpression3D(before, input) ==
    [id |-> Expression3DId(before + 1), rawInput |-> input, visible |-> TRUE,
     color |-> COLORS[((before + 1) % Len(COLORS)) + 1]]

INITIAL_EXPRESSIONS == <<createExpression(0, "x^2"), createExpression(1, "sin(x)")>>
INITIAL_EXPRESSIONS_3D == <<createExpression3D(0, "1.6sin(sqrt(x^2+y^2))")>>

ExampleKeys == {"parabola", "sine", "crra", "mixed"}
ExampleKeys3D == {"paraboloid", "saddle", "ripples", "mixed"}

exampleExpressions(key, before) ==
    CASE key = "parabola" ->
           <<createExpression(before, "x^2 - 2*x - 3"), createExpression(before + 1, "0.5*x + 2")>>
      [] key = "sine" ->
           <<createExpression(before, "sin(x)"), createExpression(before + 1, "cos(x)")>>
      [] key = "crra" -> <<createExpression(before, "(x^(1-1/10.5))/(1-(1/10.5))")>>
      [] key = "mixed" ->
           <<createExpression(before, "1/(x-1)"), createExpression(before + 1, "exp(0.2*x)")>>
      [] OTHER -> INITIAL_EXPRESSIONS

exampleExpressions3D(key, before) ==
    CASE key = "paraboloid" -> <<createExpression3D(before, "0.08*(x^2 + y^2)")>>
      [] key = "saddle" -> <<createExpression3D(before, "0.12*(x^2 - y^2)")>>
      [] key = "ripples" -> <<createExpression3D(before, "sin(sqrt(x^2 + y^2))")>>
      [] key = "mixed" ->
           <<createExpression3D(before, "sin(x)*cos(y)"),
             createExpression3D(before + 1, "0.03*(x^2 + y^2)")>>
      [] OTHER -> INITIAL_EXPRESSIONS_3D

\* { ...expr, ...patch }
Patched(expr, patch) ==
    [k \in DOMAIN expr |-> IF k \in DOMAIN patch THEN patch[k] ELSE expr[k]]

\* the patches the ON/OFF button of a row sends
Patches == {[visible |-> FALSE], [visible |-> TRUE]}

\* prev.findIndex((expr) => expr.id === id), counted from 1; 0 when absent
FindIndex(prev, id) ==
    IF \E i \in 1..Len(prev) : prev[i].id = id
    THEN CHOOSE i \in 1..Len(prev) : prev[i].id = id /\ \A j \in 1..(i - 1) : prev[j].id # id
    ELSE 0

\* copy.splice(index, 1)
SplicedOut(copy, index) ==
    [i \in 1..(Len(copy) - 1) |-> IF i < index THEN copy[i] ELSE copy[i + 1]]

\* copy.splice(target, 0, item)
SplicedIn(copy, target, item) ==
    [i \in 1..(Len(copy) + 1) |->
        IF i < target THEN copy[i] ELSE IF i = target THEN item ELSE copy[i - 1]]

\* the updaters of the 2D list
updateExpression(prev, id, patch) ==
    [i \in 1..Len(prev) |-> IF prev[i].id = id THEN Patched(prev[i], patch) ELSE prev[i]]

addExpression(prev, before) == Append(prev, createExpression(before, ""))

removeExpression_Unguarded(prev, id) == SelectSeq(prev, LAMBDA expr : expr.id # id)

removeExpression(prev, id) ==
    IF Len(prev) <= 1 THEN prev ELSE SelectSeq(prev, LAMBDA expr : expr.id # id)

MovedTo(prev, index, target) ==
    IF target < 1 \/ target > Len(prev) THEN prev
    ELSE SplicedIn(SplicedOut(prev, index), target, prev[index])

MovedFrom(prev, index, direction) ==
    IF index < 1 THEN prev ELSE MovedTo(prev, index, index + direction)

moveExpression(prev, id, direction) == MovedFrom(prev, FindIndex(prev, id), direction)

\* the updaters of the 3D list
updateExpression3D(prev, id, patch) ==
    [i \in 1..Len(prev) |-> IF prev[i].id = id THEN Patched(prev[i], patch) ELSE prev[i]]

addExpression3D(prev, before) == Append(prev, createExpression3D(before, ""))

removeExpression3D(prev, id) ==
    IF Len(prev) <= 1 THEN prev ELSE SelectSeq(prev, LAMBDA expr : expr.id # id)

moveExpression3D(prev, id, direction) == MovedFrom(prev, FindIndex(prev, id), direction)

\* the App once the module is loaded, showing the page of the hash
ListsOn(page) ==
    [page |-> page,
     expressions |-> INITIAL_EXPRESSIONS, expressionCounter |-> 2,
     expressions3D |-> INITIAL_EXPRESSIONS_3D, expression3DCounter |-> 1]

OthersLists ==
    <<prepVars, treeVars, evalCall, sampling, contours, converted, exported, viewport3D,
      viewport2D, frame3D, domains, drag>>

ListsInit ==
    /\ PrepIdle
    /\ TreeIdle
    /\ evalCall = NoCall
    /\ sampling = NoSampling
    /\ contours = NoContours
    /\ converted = NoConversion
    /\ exported = NoExport
    /\ viewport3D = DEFAULT_VIEWPORT_3D
    /\ viewport2D = DEFAULT_VIEWPORT
    /\ frame3D = NoFrame
    /\ domains = NoDomains
    /\ drag = NoDrag
    /\ lists \in {ListsOn("2d"), ListsOn("3d")}

\* the ids of the rows shown
RowIds(rows) == {rows[i].id : i \in 1..Len(rows)}

\* the ids the counters can hand out
Ids == {ExpressionId(n) : n \in 1..MaxCreated}
Ids3D == {Expression3DId(n) : n \in 1..MaxCreated}

UpdateRow(id, patch) ==
    /\ lists.page = "2d"
    /\ id \in RowIds(lists.expressions)
    /\ lists' = [lists EXCEPT !.expressions = updateExpression(lists.expressions, id, patch)]
    /\ UNCHANGED OthersLists

AddRow ==
    /\ lists.page = "2d"
    /\ lists.expressionCounter < MaxCreated
    /\ lists' = [lists EXCEPT !.expressions = addExpression(lists.expressions, lists.expressionCounter),
                             !.expressionCounter = lists.expressionCounter + 1]
    /\ UNCHANGED OthersLists

RemoveRow(id) ==
    /\ lists.page = "2d"
    /\ id \in RowIds(lists.expressions)
    /\ lists' = [lists EXCEPT !.expressions = removeExpression(lists.expressions, id)]
    /\ UNCHANGED OthersLists

MoveRow(id, direction) ==
    /\ lists.page = "2d"
    /\ id \in RowIds(lists.expressions)
    /\ lists' = [lists EXCEPT !.expressions = moveExpression(lists.expressions, id, direction)]
    /\ UNCHANGED OthersLists

LoadExample(key) ==
    /\ lists.page = "2d"
    /\ lists.expressionCounter + Len(exampleExpressions(key, 0)) <= MaxCreated
    /\ lists' = [lists EXCEPT !.expressions = exampleExpressions(key, lists.expressionCounter),
                             !.expressionCounter =
                                 lists.expressionCounter + Len(exampleExpressions(key, 0))]
    /\ UNCHANGED OthersLists

UpdateRow3D(id, patch) ==
    /\ lists.page = "3d"
    /\ id \in RowIds(lists.expressions3D)
    /\ lists' = [lists EXCEPT !.expressions3D = updateExpression3D(lists.expressions3D, id, patch)]
    /\ UNCHANGED OthersLists

AddRow3D ==
    /\ lists.page = "3d"
    /\ lists.expression3DCounter < MaxCreated
    /\ lists' = [lists EXCEPT !.expressions3D =
                                 addExpression3D(lists.expressions3D, lists.expression3DCounter),
                             !.expression3DCounter = lists.expression3DCounter + 1]
    /\ UNCHANGED OthersLists

RemoveRow3D(id) ==
    /\ lists.page = "3d"
    /\ id \in RowIds(lists.expressions3D)
    /\ lists' = [lists EXCEPT !.expressions3D = removeExpression3D(lists.expressions3D, id)]
    /\ UNCHANGED OthersLists

MoveRow3D(id, direction) ==
    /\ lists.page = "3d"
    /\ id \in RowIds(lists.expressions3D)
    /\ lists' = [lists EXCEPT !.expressions3D = moveExpression3D(lists.expressions3D, id, direction)]
    /\ UNCHANGED OthersLists

LoadExample3D(key) ==
    /\ lists.page = "3d"
    /\ lists.expression3DCounter + Len(exampleExpressions3D(key, 0)) <= MaxCreated
    /\ lists' = [lists EXCEPT !.expressions3D = exampleExpressions3D(key, lists.expression3DCounter),
                             !.expression3DCounter =
                                 lists.expression3DCounter + Len(exampleExpressions3D(key, 0))]
    /\ UNCHANGED OthersLists

ListsNext ==
    \/ \E id \in Ids, patch \in Patches : UpdateRow(id, patch)
    \/ AddRow
    \/ \E id \in Ids : RemoveRow(id)
    \/ \E id \in Ids, direction \in {-1, 1} : MoveRow(id, direction)
    \/ \E key \in ExampleKeys : LoadExample(key)
    \/ \E id \in Ids3D, patch \in Patches : UpdateRow3D(id, patch)
    \/ AddRow3D
    \/ \E id \in Ids3D : RemoveRow3D(id)
    \/ \E id \in Ids3D, direction \in {-1, 1} : MoveRow3D(id, direction)
    \/ \E key \in ExampleKeys3D : LoadExample3D(key)

SpecLists == ListsInit /\ [][ListsNext]_vars

(***************************************************************************)
(* Claims about the preparer                                               *)
(***************************************************************************)
Blank(s) == \A i \in 1..Len(s) : s[i] = " "
CountEq(s) == Cardinality({i \in 1..Len(s) : s[i] = "="})

\* C1 as stated: for every raw text, in 2D and in 3D, the evaluator and the
\* AST node are both non-null if and only if error is null.
C1_AsStated ==
    /\ (prepared.evaluator # Null /\ prepared.node # Null) <=> prepared.error = Null
    /\ (prepared3D.evaluator # Null /\ prepared3D.node # Null) <=> prepared3D.error = Null

\* C1 (amended): for a text that is not blank, the 3D result has evaluator and
\* node both non-null iff error is null, and the 2D result has the node and the
\* evaluator of its mode (evaluator when explicit, implicitEvaluator when
\* implicit, the other one null) both non-null iff error is null; with an error
\* all of them are null.  For a blank text error, evaluators and node are null.
C1_EvaluatorIffNoError ==
    IF Blank(rawInput)
    THEN /\ prepared.error = Null /\ prepared.node = Null
         /\ prepared.evaluator = Null /\ prepared.implicitEvaluator = Null
         /\ prepared3D.error = Null /\ prepared3D.node = Null
         /\ prepared3D.evaluator = Null
    ELSE /\ prepared.error = Null =>
              /\ prepared.node # Null
              /\ prepared.mode = "explicit" =>
                     prepared.evaluator # Null /\ prepared.implicitEvaluator = Null
              /\ prepared.mode = "implicit" =>
                     prepared.implicitEvaluator # Null /\ prepared.evaluator = Null
         /\ prepared.error # Null =>
              /\ prepared.node = Null
              /\ prepared.evaluator = Null /\ prepared.implicitEvaluator = Null
         /\ prepared3D.error = Null =>
              prepared3D.node # Null /\ prepared3D.evaluator # Null
         /\ prepared3D.error # Null =>
              prepared3D.node = Null /\ prepared3D.evaluator = Null

\* a valid implicit equation: no error, a node, and no 1-argument evaluator
C1_Witness ==
    /\ prepared.mode = "implicit" /\ prepared.error = Null
    /\ prepared.node # Null /\ prepared.implicitEvaluator # Null
    /\ prepared3D.error # Null

\* is the expression text E accepted by the explicit preparer ?
ValidExplicit(E) ==
    LET parsed == Parse(normalizeInput(E))
    IN  ~Threw(parsed) /\ validateNode(parsed.node, BASE_ALLOWED_SYMBOLS) = Null

SameAsExplicit(E) ==
    /\ prepared = prepareMath(E)
    /\ prepared.mode = "explicit"
    /\ prepared.implicitEvaluator = Null
    /\ prepared.evaluator # Null <=> ValidExplicit(E)
    /\ prepared.evaluator # Null => prepared.evaluator[1].arity = 1
    /\ prepared.error = Null <=> ValidExplicit(E)

C6_FormErrors ==
    LET n == normalizeInput(rawInput)
        parts == SplitEquals(n)
    IN  /\ (CountEq(n) > 1 \/ (CountEq(n) = 1 /\ (Blank(parts[1]) \/ Blank(parts[2])))) =>
              /\ prepared.error # Null
              /\ prepared.evaluator = Null
              /\ prepared.implicitEvaluator = Null
              /\ prepared.node = Null
        /\ CountEq(n) >= 1 =>
              /\ prepared3D.error # Null
              /\ prepared3D.evaluator = Null
              /\ prepared3D.node = Null

\* two equals signs around text that would be a valid equation without the second
C6_Witness ==
    /\ CountEq(rawInput) = 2
    /\ ~Blank(SplitEquals(rawInput)[1]) /\ ~Blank(SplitEquals(rawInput)[2])
    /\ prepared.error = <<"Use exactly one equals sign in an equation.">>
    /\ prepared3D.error # Null

(***************************************************************************)
(* Claims about the validator                                              *)
(***************************************************************************)
ArithmeticOperators == {<<"+">>, <<"-">>, <<"*">>, <<"/">>, <<"^">>}

\* every node of n is a constant, a symbol, a unary or binary arithmetic
\* operator or a call of a whitelisted function
RECURSIVE OnlyArithmetic(_)
OnlyArithmetic(n) ==
    /\ \/ n.type \in {"ConstantNode", "SymbolNode"}
       \/ n.type = "OperatorNode" /\ n.name \in ArithmeticOperators /\ Len(n.kids) \in {1, 2}
       \/ n.type = "FunctionNode" /\ n.name \in ALLOWED_FUNCTIONS
    /\ \A k \in 1..Len(n.kids) : OnlyArithmetic(n.kids[k])

\* C2 as stated: an AST is accepted (and an evaluator compiled) only if every
\* node is a constant, a symbol, a unary or binary arithmetic operator or a call
\* of a whitelisted function.  (Stated of the explicit and the surface preparer,
\* which validate the AST of the text as typed.)
C2_AsStated ==
    /\ prepared.evaluator # Null => OnlyArithmetic(prepared.evaluator[1].compiled)
    /\ prepared3D.evaluator # Null => OnlyArithmetic(prepared3D.evaluator[1].compiled)

\* some node of n has one of the kinds
RECURSIVE ContainsKind(_, _)
ContainsKind(n, kinds) ==
    n.type \in kinds \/ \E k \in 1..Len(n.kids) : ContainsKind(n.kids[k], kinds)

\* some call in n has a name outside the whitelist
RECURSIVE ContainsOtherCall(_)
ContainsOtherCall(n) ==
    \/ n.type = "FunctionNode" /\ n.name \notin ALLOWED_FUNCTIONS
    \/ \E k \in 1..Len(n.kids) : ContainsOtherCall(n.kids[k])

\* some symbol of n that is not the name of a called function is outside allowed
RECURSIVE ContainsOtherSymbol(_, _, _)
ContainsOtherSymbol(n, allowed, isCalledName) ==
    \/ n.type = "SymbolNode" /\ ~isCalledName /\ n.name \notin allowed
    \/ \E k \in 1..Len(n.kids) :
           ContainsOtherSymbol(n.kids[k], allowed, n.type = "FunctionNode" /\ k = 1)

Rejected(p) == p.error # Null /\ p.evaluator = Null /\ p.node = Null

\* C3: an AST that holds, at any depth, a node of a structural kind, a call of
\* a function outside the whitelist, or a symbol outside the allowed set that is
\* not in function-name position, is rejected: validateNode returns an error and
\* the prepared result has the error and neither evaluator nor node.
C3_RejectsAtAnyDepth ==
    /\ (ContainsKind(tree, BLOCKED_NODE_TYPES) \/ ContainsOtherCall(tree)) =>
          /\ validateNode(tree, BASE_ALLOWED_SYMBOLS) # Null
          /\ validateNode(tree, IMPLICIT_ALLOWED_SYMBOLS) # Null
          /\ validateNode3D(tree) # Null
          /\ Rejected(treePrepared.explicit)
          /\ Rejected(treePrepared.implicit) /\ treePrepared.implicit.implicitEvaluator = Null
          /\ Rejected(treePrepared.surface)
    /\ ContainsOtherSymbol(tree, {<<"x">>, <<"p", "i">>, <<"e">>}, FALSE) =>
          /\ validateNode(tree, BASE_ALLOWED_SYMBOLS) # Null
          /\ Rejected(treePrepared.explicit)
    /\ ContainsOtherSymbol(tree, {<<"x">>, <<"y">>, <<"p", "i">>, <<"e">>}, FALSE) =>
          /\ validateNode(tree, IMPLICIT_ALLOWED_SYMBOLS) # Null
          /\ validateNode3D(tree) # Null
          /\ Rejected(treePrepared.implicit) /\ treePrepared.implicit.implicitEvaluator = Null
          /\ Rejected(treePrepared.surface)

\* a structural node below a whitelisted call: only the argument is at fault
C3_Witness ==
    /\ tree.type = "FunctionNode"
    /\ tree.name \in ALLOWED_FUNCTIONS
    /\ tree.kids[2].type \in BLOCKED_NODE_TYPES
    /\ Rejected(treePrepared.surface)

\* does text hold the snippet as a substring ?
HasSnippet(text, snippet) ==
    \E i \in 1..(Len(text) - Len(snippet) + 1) :
        SubStr(text, i, i + Len(snippet) - 1) = snippet

Rejected2D(p) ==
    p.error # Null /\ p.evaluator = Null /\ p.implicitEvaluator = Null /\ p.node = Null

\* C4 as stated: a text that holds 'x=1', '[1,2]' or 'x[0]' always prepares to an
\* error and no evaluator, in 2D and in 3D.
C4_AsStated ==
    (\E snippet \in Snippets : HasSnippet(rawInput, snippet)) =>
        Rejected2D(prepared) /\ Rejected(prepared3D)

\* C4 (amended): a text that holds '[1,2]' or 'x[0]' prepares to an error and no
\* evaluator in 2D and in 3D, and a text that holds 'x=1' does so in 3D; in 2D
\* 'x=1' is an equation: the text 'x=1' prepares without error as an implicit
\* entry with the 2-argument evaluator only.
C4_SnippetsRejected ==
    /\ (HasSnippet(rawInput, <<"[", "1", ",", "2", "]">>)
            \/ HasSnippet(rawInput, <<"x", "[", "0", "]">>)) =>
          Rejected2D(prepared) /\ Rejected(prepared3D)
    /\ HasSnippet(rawInput, <<"x", "=", "1">>) => Rejected(prepared3D)
    /\ rawInput = <<"x", "=", "1">> =>
          /\ prepared.mode = "implicit" /\ prepared.error = Null
          /\ prepared.evaluator = Null /\ prepared.implicitEvaluator # Null

\* an array literal inside a longer text that parses: the validator rejects it
C4_Witness ==
    /\ HasSnippet(rawInput, <<"[", "1", ",", "2", "]">>)
    /\ Len(rawInput) > 5
    /\ prepared.error = <<"Unsupported expression feature", "ArrayNode">>
    /\ prepared3D.error = <<"Unsupported expression feature", "ArrayNode">>

(***************************************************************************)
(* Claims about the evaluator closures                                     *)
(***************************************************************************)
\* the imaginary part is a number of magnitude below 1e-10
InTolerance(im) ==
    im.cls = "finite" /\ im.v < ImagTolerance /\ im.v > 0 - ImagTolerance

\* what the contract says a closure returns when compiled.evaluate did raw
Contracted(raw) ==
    IF raw.kind = "number" /\ raw.re.cls = "finite" THEN Some(raw.re)
    ELSE IF raw.kind = "complex" /\ raw.re.cls = "finite" /\ InTolerance(raw.im)
         THEN Some(raw.re)
    ELSE Null

C7_Returns ==
    evalCall.which # "none" =>
        /\ ~evalCall.outcome.threw
        /\ evalCall.outcome.value = Contracted(evalCall.raw)
        /\ evalCall.outcome.value # Null => evalCall.outcome.value[1].cls = "finite"

C7_KeepsError ==
    evalCall' # evalCall =>
        /\ prepared'.error = prepared.error
        /\ prepared3D'.error = prepared3D.error

\* C7: a call of an evaluator closure (explicit, implicit or surface) never
\* throws and returns null or a finite number: a finite number unchanged, the
\* real part of a complex value whose real part is finite and whose imaginary
\* part has magnitude below 1e-10, and null for NaN, the infinities, every
\* other value and every exception of compiled.evaluate; the call leaves the
\* entry's error as it was.
C7_EvaluatorsTotal == []C7_Returns /\ [][C7_KeepsError]_vars

\* the implicit closure has turned an exception into null, and the entry
\* still has no error
C7_Witness ==
    /\ evalCall.which = "implicitEvaluator"
    /\ evalCall.raw.kind = "throw"
    /\ evalCall.outcome = Returned(Null)
    /\ prepared.error = Null

(***************************************************************************)
(* Claims about the curve sampler                                          *)
(***************************************************************************)
\* clamp(round(samples), 32, 5000)
ExpectedSamples(samples) ==
    IF Round(samples) < 32 THEN 32
    ELSE IF Round(samples) > 5000 THEN 5000
    ELSE Round(samples)

\* the i-th sampled point of a call, whether or not a segment holds it
Point(input, i) ==
    LET x == SampleX(input.xMin, input.xMax, ExpectedSamples(input.samples), i, input.spacing)
    IN  [x |-> x, y |-> Apply(input.evaluator, x)]

WithinCutoff(y) == y.cls = "finite" /\ ~RatLess(DefaultMaxAbsY, RatAbs(y))

NoJump(y1, y2, viewport) == ~RatLess(jumpThreshold(viewport), RatAbs(RatSub(y2, y1)))

\* every sampled value is within the cutoff and no two neighbours jump
Smooth(input) ==
    /\ \A i \in 0..ExpectedSamples(input.samples) : WithinCutoff(Point(input, i).y)
    /\ \A i \in 1..ExpectedSamples(input.samples) :
          NoJump(Point(input, i - 1).y, Point(input, i).y, input.viewport)

Sampled(kind) == sampling.done /\ sampling.input.evaluator.kind = kind

\* C8 as stated: x^2 yields exactly one segment of samples + 1 points.
C8_AsStated ==
    Sampled("square") =>
        /\ Len(sampling.segments) = 1
        /\ Whole(Len(sampling.segments[1])) = RatAdd(sampling.input.samples, Whole(1))

\* C8: x^2 yields exactly one segment of clamp(round(samples), 32, 5000) + 1
\* points exactly when every sampled value is within the cutoff and no two
\* neighbouring values differ by more than the jump threshold.
C8_OneSegmentWhenSmooth ==
    Sampled("square") =>
        (Smooth(sampling.input) <=>
            /\ Len(sampling.segments) = 1
            /\ Len(sampling.segments[1]) = ExpectedSamples(sampling.input.samples) + 1)

\* 10 samples were asked for and the one segment has 33 points
C8_Witness ==
    /\ Sampled("square")
    /\ sampling.input.samples = Whole(10)
    /\ Len(sampling.segments) = 1
    /\ Len(sampling.segments[1]) = ExpectedSamples(Whole(10)) + 1

StraddlesPole(segment) ==
    \E j, k \in 1..Len(segment) :
        RatLess(segment[j].x, Whole(1)) /\ RatLess(Whole(1), segment[k].x)

\* C9: 1/(x-1) over a domain with xMin < 1 < xMax yields at least two
\* segments, none of which has points on both sides of the pole.
C9_AsStated ==
    (/\ Sampled("pole")
     /\ RatLess(sampling.input.xMin, Whole(1))
     /\ RatLess(Whole(1), sampling.input.xMax)) =>
        /\ Len(sampling.segments) >= 2
        /\ \A m \in 1..Len(sampling.segments) : ~StraddlesPole(sampling.segments[m])

RECURSIVE PointCount(_)
PointCount(segments) ==
    IF segments = <<>> THEN 0 ELSE Len(Head(segments)) + PointCount(Tail(segments))

\* the segments from the m-th on are runs of consecutive sampled points, one
\* after the other, none starting before index from
RECURSIVE InSamplingOrder(_, _, _, _)
InSamplingOrder(segments, m, from, input) ==
    IF m > Len(segments) THEN TRUE
    ELSE \E k \in from..ExpectedSamples(input.samples) :
            /\ k + Len(segments[m]) - 1 <= ExpectedSamples(input.samples)
            /\ \A j \in 1..Len(segments[m]) : segments[m][j] = Point(input, k + j - 1)
            /\ InSamplingOrder(segments, m + 1, k + Len(segments[m]), input)

SegmentsSound(input, segments) ==
    /\ \A m \in 1..Len(segments) :
          /\ Len(segments[m]) >= 2
          /\ \A j \in 1..Len(segments[m]) : WithinCutoff(segments[m][j].y)
          /\ \A j \in 1..(Len(segments[m]) - 1) :
                NoJump(segments[m][j].y, segments[m][j + 1].y, input.viewport)
    /\ InSamplingOrder(segments, 1, 0, input)
    /\ PointCount(segments) <= ExpectedSamples(input.samples) + 1

XIncreasing(segment) ==
    \A j \in 1..(Len(segment) - 1) : RatLess(segment[j].x, segment[j + 1].x)

XNotDecreasing(segment) ==
    \A j \in 1..(Len(segment) - 1) : ~RatLess(segment[j + 1].x, segment[j].x)

\* the distance between two sample positions is at least the spacing of the
\* representable numbers
StepResolved(input) ==
    ~RatLess(RatMul(RatSub(input.xMax, input.xMin), Rat(1, ExpectedSamples(input.samples))),
             Whole(input.spacing))

\* C10 as stated: every segment has at least 2 points, in sampling order, with
\* x strictly increasing when xMin < xMax, finite y within the cutoff and no
\* jump above the threshold between neighbours; no sampled point is in two
\* segments and there are at most clamp(round(samples), 32, 5000) + 1 points.
C10_AsStated ==
    sampling.done =>
        /\ SegmentsSound(sampling.input, sampling.segments)
        /\ RatLess(sampling.input.xMin, sampling.input.xMax) =>
              \A m \in 1..Len(sampling.segments) : XIncreasing(sampling.segments[m])

\* C10: as stated, except that with xMin < xMax the x of a segment never
\* decreases, and strictly increases when neighbouring sample positions are
\* at least the spacing of the representable numbers apart.
C10_SegmentsSound ==
    sampling.done =>
        /\ SegmentsSound(sampling.input, sampling.segments)
        /\ RatLess(sampling.input.xMin, sampling.input.xMax) =>
              \A m \in 1..Len(sampling.segments) :
                  /\ XNotDecreasing(sampling.segments[m])
                  /\ StepResolved(sampling.input) => XIncreasing(sampling.segments[m])

\* several segments came back, one of them with the same x twice
C10_Witness ==
    /\ sampling.done
    /\ Len(sampling.segments) >= 2
    /\ \E m \in 1..Len(sampling.segments) : ~XIncreasing(sampling.segments[m])
    /\ RatLess(sampling.input.xMin, sampling.input.xMax)

(***************************************************************************)
(* Claims about the implicit contour extractor                             *)
(***************************************************************************)
\* the call whose result contours holds
DrawnCall ==
    ContourCall(contours.input.evaluator, contours.input.viewport, contours.input.samples,
                DefaultMaxAbsValue, contours.input.digits)

\* the segments a cell contributes by the number of its crossings, the centre
\* deciding between the two ways to join four of them
JoinedAsStated(crossings, centre) ==
    IF Len(crossings) = 2 THEN <<<<crossings[1], crossings[2]>>>>
    ELSE IF Len(crossings) = 4
    THEN IF centre.cls = "finite" /\ centre.p > 0
         THEN <<<<crossings[1], crossings[4]>>, <<crossings[2], crossings[3]>>>>
         ELSE <<<<crossings[1], crossings[2]>>, <<crossings[3], crossings[4]>>>>
    ELSE <<>>

\* the same, four crossings giving nothing when the centre has no finite value
JoinedWhenCentreKnown(crossings, centre) ==
    IF Len(crossings) = 4 /\ centre.cls # "finite" THEN <<>>
    ELSE JoinedAsStated(crossings, centre)

\* the contributions of the cells lo..hi, counted row by row, one after another
RECURSIVE CellsJoined(_, _, _, _)
CellsJoined(call, asStated, lo, hi) ==
    IF lo > hi THEN <<>>
    ELSE IF lo = hi
    THEN LET crossings == Intersections(call, lo \div call.nx, lo % call.nx)
             centre == CenterValue(call, lo \div call.nx, lo % call.nx)
         IN  IF asStated THEN JoinedAsStated(crossings, centre)
             ELSE JoinedWhenCentreKnown(crossings, centre)
    ELSE CellsJoined(call, asStated, lo, (lo + hi) \div 2)
         \o CellsJoined(call, asStated, (lo + hi) \div 2 + 1, hi)

TwoPoints(segments) == \A i \in 1..Len(segments) : Len(segments[i]) = 2

\* C11 as stated: every cell contributes by its number of crossings alone: one
\* segment for 2 crossings, two segments for 4 crossings ((0,3) and (1,2) if the
\* centre value is > 0, otherwise (0,1) and (2,3)), nothing for 0, 1 or 3, and
\* every returned segment has exactly 2 points.
C11_AsStated ==
    contours.done =>
        /\ contours.segments = CellsJoined(DrawnCall, TRUE, 0, DrawnCall.nx * DrawnCall.ny - 1)
        /\ TwoPoints(contours.segments)

\* C11 amended: as stated, except that a cell with 4 crossings contributes its
\* two segments only when the evaluator returns a finite number at the cell
\* centre, and nothing when it returns null or a non-finite value there.
C11_JoinedByCrossings ==
    contours.done =>
        /\ contours.segments = CellsJoined(DrawnCall, FALSE, 0, DrawnCall.nx * DrawnCall.ny - 1)
        /\ TwoPoints(contours.segments)

\* a field drawn whose cells have 4 crossings and no value at the centre
C11_Witness ==
    /\ contours.done
    /\ contours.input.evaluator.kind = "tile"
    /\ Len(Intersections(DrawnCall, 0, 0)) = 4
    /\ CenterValue(DrawnCall, 0, 0).cls = "null"
    /\ contours.segments = <<>>

\* the number of segments that have p as an endpoint
SharedBy(segments, p) ==
    Cardinality({i \in 1..Len(segments) : p = segments[i][1] \/ p = segments[i][2]})

ClosedRing(segments) ==
    /\ Len(segments) > 0
    /\ \A i \in 1..Len(segments) :
          /\ SharedBy(segments, segments[i][1]) = 2
          /\ SharedBy(segments, segments[i][2]) = 2

\* |a| in units of 1/256, rounded towards zero and away from zero
Floor256(a) == (Magnitude(a.p) * 256) \div a.q
Ceil256(a) == (Magnitude(a.p) * 256 + a.q - 1) \div a.q

\* p is no farther from the unit circle than reach (a rational below 1); the
\* rounding of the coordinates to 1/256 is in favour of p
NearUnitCircle(p, reach) ==
    /\ (Floor256(p.x) * Floor256(p.x) + Floor256(p.y) * Floor256(p.y)) * reach.q * reach.q
          <= 65536 * (reach.q + reach.p) * (reach.q + reach.p)
    /\ (Ceil256(p.x) * Ceil256(p.x) + Ceil256(p.y) * Ceil256(p.y)) * reach.q * reach.q
          >= 65536 * (reach.q - reach.p) * (reach.q - reach.p)

\* C12 as stated: for x^2 + y^2 - 1 over [-2,2] x [-2,2], at any density, the
\* segments form a closed ring (every endpoint is shared by exactly two
\* segments) and every endpoint is within one cell diagonal of the unit
\* circle (checked with the diagonal widened to dx + dy).
C12_AsStated ==
    (contours.done /\ contours.input.evaluator.kind = "circle") =>
        /\ ClosedRing(contours.segments)
        /\ \A i \in 1..Len(contours.segments) : \A j \in 1..2 :
              NearUnitCircle(contours.segments[i][j], RatAdd(DrawnCall.dx, DrawnCall.dy))

(***************************************************************************)
(* Claims about the transpilers and the exporters                          *)
(***************************************************************************)
\* the names of the trig and inverse trig calls in a tree
RECURSIVE TrigCalls(_)
TrigCalls(node) ==
    (IF node.type = "FunctionNode" /\ FnName(node) \in UNSUPPORTED_TRIG
     THEN {FnName(node)} ELSE {})
    \cup UNION {TrigCalls(node.kids[k]) : k \in 1..Len(node.kids)}

TrigReason(fnName) ==
    <<"T", "r", "i", "g", "/", "i", "n", "v", "e", "r", "s", "e", " ", "t", "r", "i", "g", " ", "e", "x", "p", "o", "r", "t", " ", "i", "s", " ", "e", "m", "i", "t", "t", "e", "d", " ", "a", "s", " ", "c", "o", "o", "r", "d", "i", "n", "a", "t", "e", "s", " ", "f", "o", "r", " ", "s", "a", "f", "e", "t", "y", " ", "(">> \o fnName \o <<")", ".">>

\* a tree of trig calls and of what the 2D transpiler converts: constants,
\* x, pi, e, parentheses, unary minus, the binary operators + - * / ^ and
\* calls of the supported functions with one argument
RECURSIVE PlainOrTrig(_)
PlainOrTrig(node) ==
    \/ node.type = "ConstantNode"
    \/ node.type = "SymbolNode" /\ node.name \in {<<"x">>, <<"p", "i">>, <<"e">>}
    \/ node.type = "ParenthesisNode" /\ PlainOrTrig(node.kids[1])
    \/ /\ node.type = "OperatorNode"
       /\ OperatorFn(node) \in {"unaryMinus", "add", "subtract", "multiply", "divide", "pow"}
       /\ \A k \in 1..Len(node.kids) : PlainOrTrig(node.kids[k])
    \/ node.type = "FunctionNode" /\ FnName(node) \in UNSUPPORTED_TRIG
    \/ /\ node.type = "FunctionNode"
       /\ FnName(node) \in SUPPORTED_FUNCTIONS
       /\ Len(FnArgs(node)) = 1
       /\ PlainOrTrig(FnArgs(node)[1])

\* the lines of an entry exported as coordinates: the comment, then one
\* line of coordinates for each segment
AsCoordinates(lines) ==
    /\ Len(lines) >= 1
    /\ lines[1].kind = "comment coordinates"
    /\ \A k \in 2..Len(lines) : lines[k].kind = "plot coordinates"

\* the entry made from the tree passes validation
Validated(node) == validateNode(node, BASE_ALLOWED_SYMBOLS) = Null

\* C13 as stated: in 2D mode any AST that contains a call of sin, cos, tan,
\* asin, acos or atan fails conversion with a reason naming that function,
\* and the export of the entry is in coordinates.
C13_AsStated ==
    (converted.node # Null /\ TrigCalls(converted.node[1]) # {}) =>
        /\ ~converted.tikz.ok
        /\ \E fnName \in TrigCalls(converted.node[1]) :
              converted.tikz.reason = Some(TrigReason(fnName))
        /\ Validated(converted.node[1]) => AsCoordinates(converted.lines)

\* C13: in 2D mode any AST that contains a trig or inverse trig call fails
\* conversion with a reason; the reason names a trig call of the tree when
\* everything around the trig calls is convertible; a shown entry that
\* passed validation is exported in coordinates, never by formula.
C13_TrigFailsConversion ==
    (converted.node # Null /\ TrigCalls(converted.node[1]) # {}) =>
        /\ ~converted.tikz.ok
        /\ converted.tikz.reason # Null
        /\ converted.tikz.reason[1] # <<>>
        /\ PlainOrTrig(converted.node[1]) =>
              \E fnName \in TrigCalls(converted.node[1]) :
                  converted.tikz.reason = Some(TrigReason(fnName))
        /\ Validated(converted.node[1]) => AsCoordinates(converted.lines)
        /\ \A k \in 1..Len(converted.lines) :
              converted.lines[k].kind \notin {"draw formula", "plot formula"}

\* a trig call under another construct, exported in coordinates
C13_Witness ==
    /\ converted.node # Null
    /\ converted.nest = 2
    /\ converted.node[1].type = "OperatorNode"
    /\ TrigCalls(converted.node[1]) # {}
    /\ PlainOrTrig(converted.node[1])
    /\ ~converted.tikz.ok
    /\ AsCoordinates(converted.lines)
    /\ Len(converted.lines) = 2

\* what an operator node is emitted as, according to the claim, from what
\* its first and its last operand are emitted as
EmittedOperator(node, first, last) ==
    LET fn == OperatorFn(node)
        A == Interpolate(first.expression)
        B == Interpolate(last.expression)
    IN  IF fn = "pow" THEN <<"p", "o", "w", "(">> \o A \o <<",">> \o B \o <<")">>
        ELSE IF fn = "unaryMinus" THEN <<"-", "(">> \o A \o <<")">>
        ELSE <<"(">> \o A \o <<")">> \o node.name \o <<"(">> \o B \o <<")">>

HasCaret(text) == \E i \in 1..Len(text) : text[i] = "^"

\* C14 as stated: whenever convertAstToTikz or convertAstToTikz3D succeeds,
\* a power is emitted as pow(A,B), a binary + - * / as (A)op(B), unary minus
\* as -(A), and the output has no ^ in it.
C14_AsStated ==
    converted.node # Null =>
        LET node == converted.node[1]
            isOperator == /\ node.type = "OperatorNode"
                          /\ OperatorFn(node) \in {"pow", "add", "subtract", "multiply",
                                                   "divide", "unaryMinus"}
        IN  /\ converted.tikz.ok =>
                  /\ ~HasCaret(Interpolate(converted.tikz.expression))
                  /\ isOperator =>
                        Interpolate(converted.tikz.expression)
                            = EmittedOperator(node, convertNode(node.kids[1]),
                                              convertNode(node.kids[Len(node.kids)]))
            /\ converted.tikz3D.ok =>
                  /\ ~HasCaret(Interpolate(converted.tikz3D.expression))
                  /\ isOperator =>
                        Interpolate(converted.tikz3D.expression)
                            = EmittedOperator(node, convertNode3D(node.kids[1]),
                                              convertNode3D(node.kids[Len(node.kids)]))

\* the 3D function table of the claim: what the call of fnName is emitted as
\* when its argument is emitted as A, and null for the other names
Emitted3DCall(fnName, A) ==
    IF fnName \in {<<"s", "i", "n">>, <<"c", "o", "s">>, <<"t", "a", "n">>} THEN Some(fnName \o <<"(", "d", "e", "g", "(">> \o A \o <<")", ")">>)
    ELSE IF fnName \in {<<"a", "s", "i", "n">>, <<"a", "c", "o", "s">>, <<"a", "t", "a", "n">>} THEN Some(<<"(">> \o fnName \o <<"(">> \o A \o <<")", ")", "*", "p", "i", "/", "1", "8", "0">>)
    ELSE IF fnName \in {<<"s", "q", "r", "t">>, <<"a", "b", "s">>, <<"e", "x", "p">>} THEN Some(fnName \o <<"(">> \o A \o <<")">>)
    ELSE IF fnName = <<"l", "o", "g">> THEN Some(<<"l", "n", "(">> \o A \o <<")">>)
    ELSE IF fnName = <<"l", "o", "g", "1", "0">> THEN Some(<<"(", "l", "n", "(">> \o A \o <<")", "/", "l", "n", "(", "1", "0", ")", ")">>)
    ELSE Null

\* C15 as stated: in 3D mode a call with one argument that converts to A
\* succeeds with the entry of the function table for its name; a call of
\* another name or with another number of arguments fails.
C15_AsStated ==
    (converted.node # Null /\ converted.node[1].type = "FunctionNode") =>
        LET node == converted.node[1]
            arg == convertNode3D(FnArgs(node)[1])
            emitted == Emitted3DCall(FnName(node), Interpolate(arg.expression))
        IN  IF Len(FnArgs(node)) # 1 \/ emitted = Null THEN ~converted.tikz3D.ok
            ELSE arg.ok =>
                    /\ converted.tikz3D.ok
                    /\ converted.tikz3D.expression # Null
                    /\ Interpolate(converted.tikz3D.expression) = emitted[1]

\* a result as the claim describes it: ok with a non-empty string, or not
\* ok with a non-empty reason
WellFormedResult(result) ==
    IF result.ok
    THEN /\ result.expression # Null
         /\ result.expression[1].type = "string"
         /\ result.expression[1].text # <<>>
    ELSE /\ result.reason # Null
         /\ result.reason[1] # <<>>

\* the operands of a node: the arguments of a call, the kids of the others
Operands(node) == IF node.type = "FunctionNode" THEN FnArgs(node) ELSE node.kids

\* when an operand fails, whole fails with the reason of the first one that does
PropagatesFailure(node, whole, Conv(_)) ==
    LET failing == {k \in 1..Len(Operands(node)) : ~Conv(Operands(node)[k]).ok}
    IN  failing # {} =>
            LET first == CHOOSE k \in failing : \A j \in failing : k <= j
            IN  /\ ~whole.ok
                /\ whole.reason = Conv(Operands(node)[first]).reason

\* C16 as stated: for any AST, null included, each transpiler returns ok
\* with a non-empty expression string or not ok with a non-empty reason,
\* and the failure of a sub-expression is the failure of the whole, the
\* left operand's before the right operand's.
C16_AsStated ==
    /\ WellFormedResult(converted.tikz)
    /\ WellFormedResult(converted.tikz3D)
    /\ converted.node # Null =>
          /\ PropagatesFailure(converted.node[1], converted.tikz, convertNode)
          /\ PropagatesFailure(converted.node[1], converted.tikz3D, convertNode3D)

\* a tree built only from numeric constants, x, pi, e, parentheses, unary
\* minus, the binary operators + - * / ^ and calls of sqrt, abs, exp, log
\* with one argument
RECURSIVE Plain(_)
Plain(node) ==
    \/ node.type = "ConstantNode" /\ node.name # <<>>
    \/ node.type = "SymbolNode" /\ node.name \in {<<"x">>, <<"p", "i">>, <<"e">>}
    \/ node.type = "ParenthesisNode" /\ Plain(node.kids[1])
    \/ /\ node.type = "OperatorNode"
       /\ OperatorFn(node) \in {"unaryMinus", "add", "subtract", "multiply", "divide", "pow"}
       /\ \A k \in 1..Len(node.kids) : Plain(node.kids[k])
    \/ /\ node.type = "FunctionNode"
       /\ FnName(node) \in {<<"s", "q", "r", "t">>, <<"a", "b", "s">>, <<"e", "x", "p">>, <<"l", "o", "g">>}
       /\ Len(FnArgs(node)) = 1
       /\ Plain(FnArgs(node)[1])

\* the two lines of an entry exported by formula
AsFormula(lines) ==
    /\ Len(lines) = 2
    /\ lines[1].kind = "draw formula"
    /\ lines[2].kind = "plot formula"

\* C17 as stated: a validated explicit AST built only from numeric
\* constants (0 included), x, pi, e, parentheses, unary minus, + - * / ^ and
\* single-argument sqrt, abs, exp, log converts (ok, a constant emitted as
\* it is written) and its entry is exported by formula, not in coordinates.
C17_AsStated ==
    (converted.node # Null /\ Plain(converted.node[1]) /\ Validated(converted.node[1])) =>
        /\ converted.tikz.ok
        /\ converted.node[1].type = "ConstantNode" =>
              Interpolate(converted.tikz.expression) = converted.node[1].name
        /\ AsFormula(converted.lines)
        /\ converted.lines[2].expression = Interpolate(converted.tikz.expression)

\* the part of the document between the grid and the frame
EntryPart(doc) == SubSeq(doc, 3, Len(doc) - 2)

\* the bounds of the entry, cut to the viewport, leave an interval
DomainMeetsViewport(expr, viewport) ==
    LET domain == parseDomainBounds(expr.domainMin, expr.domainMax, viewport)
    IN  RatLess(RatMax(domain.xMin, viewport.xMin), RatMin(domain.xMax, viewport.xMax))

\* the lines the claim gives an entry that is shown and has no error
ExportedAsStated(expr, lines) ==
    IF expr.node # Null /\ convertAstToTikz(expr.node).ok THEN AsFormula(lines)
    ELSE AsCoordinates(lines)

\* C18 as stated: the document holds, for every entry that is shown, has no
\* error (explicit or implicit) and whose domain meets the viewport, the
\* lines of a plot by formula when the conversion succeeds and coordinate
\* lines when it fails; an entry that is hidden or has an error adds no
\* line and leaves the lines of the other entry as they are.
C18_AsStated ==
    exported.tikzCode # Null =>
        LET first == expressionToTikz(exported.expressions[1], exported.viewport)
            second == expressionToTikz(exported.expressions[2], exported.viewport)
        IN  /\ EntryPart(exported.tikzCode[1]) = first \o second
            /\ \A k \in 1..2 :
                  LET expr == exported.expressions[k]
                      lines == IF k = 1 THEN first ELSE second
                  IN  /\ (~expr.visible \/ expr.error # Null) => lines = <<>>
                      /\ (expr.visible /\ expr.error = Null
                            /\ DomainMeetsViewport(expr, exported.viewport)) =>
                               ExportedAsStated(expr, lines)

\* the number of coordinate points in the lines from..to of a document part
RECURSIVE CoordinatePoints(_, _, _)
CoordinatePoints(lines, from, to) ==
    IF from > to THEN 0
    ELSE (IF lines[from].kind = "plot coordinates" THEN Len(lines[from].coords) ELSE 0)
         + CoordinatePoints(lines, from + 1, to)

\* the lines of the k-th entry in the exported document
ExportedLines(k) ==
    LET part == EntryPart(exported.tikzCode[1])
        before == Len(expressionToTikz(exported.expressions[1], exported.viewport))
    IN  IF k = 1 THEN SubSeq(part, 1, before) ELSE SubSeq(part, before + 1, Len(part))

\* C19 as stated: an entry exported in coordinates has at most 800
\* coordinate points in all, whatever the sample count and the number of
\* segments.
C19_AsStated ==
    exported.tikzCode # Null =>
        \A k \in 1..2 :
            CoordinatePoints(ExportedLines(k), 1, Len(ExportedLines(k))) <= 800

\* C19: every coordinate line of an exported entry, one for each segment of
\* the curve, has at least 2 and at most 800 points, in the order of
\* increasing x; the points of the entry are no more in all than the
\* clamped sample count plus one.
C19_BudgetPerSegment ==
    exported.tikzCode # Null =>
        \A k \in 1..2 :
            LET lines == ExportedLines(k)
            IN  /\ \A n \in 1..Len(lines) :
                      lines[n].kind = "plot coordinates" =>
                          /\ Len(lines[n].coords) >= 2
                          /\ Len(lines[n].coords) <= 800
                          /\ \A i \in 1..(Len(lines[n].coords) - 1) :
                                RatLess(lines[n].coords[i].x, lines[n].coords[i + 1].x)
                /\ CoordinatePoints(lines, 1, Len(lines))
                      <= clampedSamples(exported.expressions[k].samples) + 1

\* a curve of two long segments exported with 800 points for each, beside a
\* curve short enough to be exported whole
C19_Witness ==
    /\ exported.tikzCode # Null
    /\ CoordinatePoints(ExportedLines(1), 1, Len(ExportedLines(1))) = 1600
    /\ Len(ExportedLines(1)) = 3
    /\ CoordinatePoints(ExportedLines(2), 1, Len(ExportedLines(2))) = 501

\* a is a finite number between lo and hi
Within(a, lo, hi) == IsFinite(a) /\ ~Less(a, lo) /\ ~Less(hi, a)

\* the camera of the viewport is as the claim says
CameraValid(viewport) ==
    /\ Within(viewport.pitch, MIN_PITCH, MAX_PITCH)
    /\ Within(viewport.distance, MIN_DISTANCE, MAX_DISTANCE)
    /\ IsFinite(viewport.yaw)

\* min < max and the span is between MIN_SPAN and MAX_SPAN
AxisValid(min, max) ==
    /\ IsFinite(min)
    /\ IsFinite(max)
    /\ Less(min, max)
    /\ Within(Minus(max, min), MIN_SPAN, MAX_SPAN)

\* C20 as stated: from DEFAULT_VIEWPORT_3D, after any sequence of rotations,
\* camera zooms, scalings of the bounds, submissions of bounds and resets,
\* with any arguments, the pitch is in [-1.45, 1.45], the distance in
\* [1.35, 18], the yaw finite, and on each axis min < max with a span in
\* [1e-3, 1e6].
C20_AsStated ==
    /\ CameraValid(viewport3D)
    /\ AxisValid(viewport3D.xMin, viewport3D.xMax)
    /\ AxisValid(viewport3D.yMin, viewport3D.yMax)
    /\ AxisValid(viewport3D.zMin, viewport3D.zMax)

(***************************************************************************)
(* Claims about the 2D viewport, the 3D frame and the App                  *)
(***************************************************************************)
\* C21 as stated: from DEFAULT_VIEWPORT, after any sequence of pans, zooms,
\* zooms of one axis, submissions of bounds and resets, with any factors
\* and pixel deltas, xMin < xMax and yMin < yMax with each span in
\* [1e-3, 1e6].
C21_AsStated ==
    /\ AxisValid(viewport2D.xMin, viewport2D.xMax)
    /\ AxisValid(viewport2D.yMin, viewport2D.yMax)

\* a screen point has finite coordinates
FiniteScreen(point) == IsFinite(point.px) /\ IsFinite(point.py)

\* the world point p is farther from the camera than the threshold
BeforeCamera(p) ==
    Less(NearPlane,
         CameraDistance(createProjector(viewport3D, Whole(CanvasSide3D), Whole(CanvasSide3D)),
                        p))

\* the calls of the frame that is painted, none while the effect is pending
PaintedCalls == IF frame3D.painted = Null THEN <<>> ELSE frame3D.painted[1].calls

\* C22 as stated: the projection returns null exactly when distance -
\* rotatedZ <= 0.08 and finite screen coordinates otherwise, and a segment
\* or face is in the frame only if every endpoint projected to non-null:
\* every endpoint of a painted segment or face is farther than 0.08 from the
\* camera and has finite screen coordinates.
C22_AsStated ==
    \A k \in 1..Len(PaintedCalls) :
        /\ PaintedCalls[k].op = "stroke" =>
              /\ FiniteScreen(PaintedCalls[k].item.a) /\ FiniteScreen(PaintedCalls[k].item.b)
              /\ \A e \in 1..2 : BeforeCamera(PaintedCalls[k].item.ends[e])
        /\ PaintedCalls[k].op = "fill" =>
              \A c \in 1..4 : /\ FiniteScreen(PaintedCalls[k].item.points[c])
                              /\ BeforeCamera(PaintedCalls[k].item.corners[c])

\* the depth key of a painted face or segment is the mean of the depths of
\* its projected points
MeanDepth(call) ==
    IF call.op = "fill"
    THEN call.item.depth =
            Times(Plus(Plus(Plus(call.item.points[1].depth, call.item.points[2].depth),
                            call.item.points[3].depth), call.item.points[4].depth),
                  Rat(1, 4))
    ELSE call.item.depth = Halved(Plus(call.item.a.depth, call.item.b.depth))

\* C23: in a frame every face is painted before any segment is stroked, no
\* face is painted after a face with a greater depth key and no segment is
\* stroked after a segment with a greater depth key, the key being the mean
\* of the rotated z of the 4 corners or of the 2 endpoints.
C23_PaintOrder ==
    \A i \in 1..Len(PaintedCalls), j \in 1..Len(PaintedCalls) :
        i < j /\ {PaintedCalls[i].op, PaintedCalls[j].op} \subseteq {"fill", "stroke"} =>
            /\ ~(PaintedCalls[i].op = "stroke" /\ PaintedCalls[j].op = "fill")
            /\ PaintedCalls[i].op = PaintedCalls[j].op =>
                  ~Less(PaintedCalls[j].item.depth, PaintedCalls[i].item.depth)
            /\ MeanDepth(PaintedCalls[i]) /\ MeanDepth(PaintedCalls[j])

\* a frame with faces at two depths and segments at two depths is painted
C23_Witness ==
    /\ \E i \in 1..Len(PaintedCalls), j \in 1..Len(PaintedCalls) :
          /\ PaintedCalls[i].op = "fill" /\ PaintedCalls[j].op = "fill"
          /\ Less(PaintedCalls[i].item.depth, PaintedCalls[j].item.depth)
    /\ \E i \in 1..Len(PaintedCalls), j \in 1..Len(PaintedCalls) :
          /\ PaintedCalls[i].op = "stroke" /\ PaintedCalls[j].op = "stroke"
          /\ PaintedCalls[i].item.style # PaintedCalls[j].item.style
          /\ Less(PaintedCalls[i].item.depth, PaintedCalls[j].item.depth)

\* the text holds two adjacent stars at i
PowAt(s, i) == i + 1 <= Len(s) /\ s[i] = "*" /\ s[i + 1] = "*"

Alternating(call, iy, ix) ==
    /\ \A b \in 0..1, a \in 0..1 :
          /\ call.values[iy + b][ix + a].cls = "finite"
          /\ ~NearZero(call.values[iy + b][ix + a])
    /\ RatSign(call.values[iy][ix]) = RatSign(call.values[iy + 1][ix + 1])
    /\ RatSign(call.values[iy][ix + 1]) = RatSign(call.values[iy + 1][ix])
    /\ RatSign(call.values[iy][ix]) # RatSign(call.values[iy][ix + 1])

\* the coordinates of the grid lines
GridX(call, ix) == RatAdd(call.viewport.xMin, RatMul(Whole(ix), call.dx))
GridY(call, iy) == RatAdd(call.viewport.yMin, RatMul(Whole(iy), call.dy))

\* the segment joins the two edges of the cell that meet in its corner (a, b)
CutsOff(segment, call, iy, ix, a, b) ==
    \E k \in 1..2 :
        /\ segment[k].y = GridY(call, iy + b)
        /\ segment[3 - k].x = GridX(call, ix + a)

\* the side of the line through p and q on which r lies
Orient(p, q, r) ==
    RatSign(RatSub(RatMul(RatSub(q.x, p.x), RatSub(r.y, p.y)),
                   RatMul(RatSub(q.y, p.y), RatSub(r.x, p.x))))

\* the two segments have a point in common
Meet(s, t) ==
    /\ Orient(s[1], s[2], t[1]) * Orient(s[1], s[2], t[2]) <= 0
    /\ Orient(t[1], t[2], s[1]) * Orient(t[1], t[2], s[2]) <= 0

\* the cell has alternating corner signs, 4 crossings and a centre value
\* that has a sign
Saddle(call, iy, ix, centre) ==
    /\ Alternating(call, iy, ix)
    /\ Len(Intersections(call, iy, ix)) = 4
    /\ centre.cls = "finite"
    /\ centre.p # 0

\* each of the two segments cuts off a corner of the sign opposite to centre
CutAgainst(call, iy, ix, centre, segments) ==
    \A m \in 1..2 :
        \E a \in 0..1, b \in 0..1 :
            /\ CutsOff(segments[m], call, iy, ix, a, b)
            /\ RatSign(call.values[iy + b][ix + a]) = 0 - RatSign(centre)

SaddleAsStated(call, iy, ix, centre, segments, returned) ==
    Saddle(call, iy, ix, centre) =>
        /\ Len(segments) = 2
        /\ ~Meet(segments[1], segments[2])
        /\ \A m \in 1..2 : \E n \in 1..Len(returned) : returned[n] = segments[m]
        /\ CutAgainst(call, iy, ix, centre, segments)

SaddlesAsStated(call, returned) ==
    \A iy \in 0..(call.ny - 1), ix \in 0..(call.nx - 1) :
        SaddleAsStated(call, iy, ix, CenterValue(call, iy, ix),
                       CellSegments(call, iy, ix), returned)

\* C25: a cell with alternating corner signs and 4 crossings contributes two
\* segments that have no point in common, and each of them joins the two
\* edges that meet in a corner whose sign is opposite to the sign of the
\* centre value, whichever diagonal holds the positive corners.
C25_AsStated == contours.done => SaddlesAsStated(DrawnCall, contours.segments)

\* what the evaluator returns at the grid vertex (ix, iy) of a call
VertexValue(call, iy, ix) ==
    Apply2(call.evaluator, GridLine(call.viewport.xMin, ix, call.dx, call.digits),
           GridLine(call.viewport.yMin, iy, call.dy, call.digits))

\* the value is null, not finite or above the cutoff
Undefined(value, maxAbsValue) ==
    \/ value.cls \in {"null", "NaN", "Infinity", "-Infinity"}
    \/ value.cls = "finite" /\ RatLess(maxAbsValue, RatAbs(value))

VerticesStored(call, maxAbsValue) ==
    \A iy \in 0..call.ny, ix \in 0..call.nx :
        IF Undefined(VertexValue(call, iy, ix), maxAbsValue)
        THEN call.values[iy][ix] = NotNumber("NaN")
        ELSE call.values[iy][ix] = VertexValue(call, iy, ix)

\* c lies between a and b
Between(a, b, c) ==
    \/ ~RatLess(c, a) /\ ~RatLess(b, c)
    \/ ~RatLess(c, b) /\ ~RatLess(a, c)

\* the crossing of the edge from (x1, y1) to (x2, y2), if there is one, comes
\* from two defined values of opposite signs or of which exactly one is
\* within 1e-12 of zero, and lies on the edge
EdgeSound(x1, y1, v1, x2, y2, v2, crossing) ==
    crossing # Null =>
        /\ v1.cls = "finite" /\ v2.cls = "finite"
        /\ \/ RatSign(v1) * RatSign(v2) < 0
           \/ NearZero(v1) # NearZero(v2)
        /\ Between(x1, x2, crossing[1].x)
        /\ Between(y1, y2, crossing[1].y)

EdgeAsStated(x1, y1, v1, x2, y2, v2, digits) ==
    EdgeSound(x1, y1, v1, x2, y2, v2, edgeIntersection(x1, y1, v1, x2, y2, v2, digits))

\* the four edges of the cell between the grid lines x0, x1, y0 and y1
CellEdgesAsStated(call, iy, ix, x0, x1, y0, y1) ==
    /\ EdgeAsStated(x0, y0, call.values[iy][ix], x1, y0, call.values[iy][ix + 1], call.digits)
    /\ EdgeAsStated(x1, y0, call.values[iy][ix + 1], x1, y1, call.values[iy + 1][ix + 1],
                    call.digits)
    /\ EdgeAsStated(x1, y1, call.values[iy + 1][ix + 1], x0, y1, call.values[iy + 1][ix],
                    call.digits)
    /\ EdgeAsStated(x0, y1, call.values[iy + 1][ix], x0, y0, call.values[iy][ix], call.digits)

CellEdgesFrom(call, iy, ix, x0, y0) ==
    CellEdgesAsStated(call, iy, ix, x0, Fl(RatAdd(x0, call.dx), call.digits),
                      y0, Fl(RatAdd(y0, call.dy), call.digits))

EdgesAsStated(call) ==
    \A iy \in 0..(call.ny - 1), ix \in 0..(call.nx - 1) :
        CellEdgesFrom(call, iy, ix, GridLine(call.viewport.xMin, ix, call.dx, call.digits),
                      GridLine(call.viewport.yMin, iy, call.dy, call.digits))

ContoursAsStated(call, returned) ==
    /\ VerticesStored(call, DefaultMaxAbsValue)
    /\ returned = CellsJoined(call, FALSE, 0, call.nx * call.ny - 1)
    /\ EdgesAsStated(call)

\* C26: a grid vertex whose evaluation is null, not finite or above the
\* cutoff is stored as NaN and every other vertex as its value; the returned
\* segments are joined from the crossings of the cells, and an edge has a
\* crossing only when its two values are defined and either have opposite
\* signs or exactly one of them is within 1e-12 of zero, the crossing then
\* lying on the edge between its two ends.
C26_AsStated == contours.done => ContoursAsStated(DrawnCall, contours.segments)

\* the grid of the k-th entry in the frame that is painted
PaintedGrid(k) == frame3D.painted[1].grids[k][1]

\* the entries whose grid was built for the frame that is painted
Meshed ==
    IF frame3D.painted = Null THEN {}
    ELSE {k \in 1..Len(frame3D.expressions) : frame3D.painted[1].grids[k] # Null}

\* z is null, not finite, beyond 1e7 or outside the bounds of z of the viewport
OutsideMesh(z) ==
    \/ z.cls = "null" \/ ~IsFinite(z)
    \/ Less(Whole(10000000), Abs(z))
    \/ Less(z, viewport3D.zMin) \/ Less(viewport3D.zMax, z)

\* the bounds the mesh of the k-th entry is built between, along x and along y
MeshLow(k, axis) ==
    IF axis = "x"
    THEN MathMax(parseSurfaceDomainBounds(frame3D.expressions[k].domainXMin,
                                          frame3D.expressions[k].domainXMax,
                                          viewport3D.xMin, viewport3D.xMax).min,
                 viewport3D.xMin)
    ELSE MathMax(parseSurfaceDomainBounds(frame3D.expressions[k].domainYMin,
                                          frame3D.expressions[k].domainYMax,
                                          viewport3D.yMin, viewport3D.yMax).min,
                 viewport3D.yMin)

MeshHigh(k, axis) ==
    IF axis = "x"
    THEN MathMin(parseSurfaceDomainBounds(frame3D.expressions[k].domainXMin,
                                          frame3D.expressions[k].domainXMax,
                                          viewport3D.xMin, viewport3D.xMax).max,
                 viewport3D.xMax)
    ELSE MathMin(parseSurfaceDomainBounds(frame3D.expressions[k].domainYMin,
                                          frame3D.expressions[k].domainYMax,
                                          viewport3D.yMin, viewport3D.yMax).max,
                 viewport3D.yMax)

\* the position of the i-th of the r + 1 grid lines between low and high
MeshAt(low, high, i, r) == Plus(low, Times(Whole(i), Quotient(Minus(high, low), Whole(r))))

\* every grid point is undefined when the value the closure has there is
\* outside, and is the point with that value otherwise
GridAsValues(evaluator, grid, r, lowX, highX, lowY, highY) ==
    \A yi \in 0..r : \A xi \in 0..r :
        LET x == MeshAt(lowX, highX, xi, r)
            y == MeshAt(lowY, highY, yi, r)
            z == Apply2(evaluator, x, y)
        IN  grid[yi][xi] = IF OutsideMesh(z) THEN Null ELSE Some(WorldPoint(x, y, z))

\* the four points are the corners of a cell of the grid, all defined
CellOf(grid, corners) ==
    \E yi \in DOMAIN grid, xi \in DOMAIN grid :
        /\ yi + 1 \in DOMAIN grid /\ xi + 1 \in DOMAIN grid
        /\ grid[yi][xi] = Some(corners[1]) /\ grid[yi][xi + 1] = Some(corners[2])
        /\ grid[yi + 1][xi + 1] = Some(corners[3]) /\ grid[yi + 1][xi] = Some(corners[4])

\* the two points are neighbours in a row or in a column of the grid, both defined
EdgeOf(grid, ends) ==
    \E yi \in DOMAIN grid, xi \in DOMAIN grid :
        /\ grid[yi][xi] = Some(ends[1])
        /\ \/ xi + 1 \in DOMAIN grid /\ grid[yi][xi + 1] = Some(ends[2])
           \/ yi + 1 \in DOMAIN grid /\ grid[yi + 1][xi] = Some(ends[2])

\* the colours of the segments that are not edges of a mesh
FrameColors == {"#d6deea", "#b5c4d8", "#d94646", "#2563eb", "#0f766e"}

\* the resolution for the number of samples n: round(sqrt(n) * 1.35), which
\* is the k with (k - 1/2)^2 <= 1.8225 n < (k + 1/2)^2, held in [12, 80]
ResolutionFor(n, r) ==
    \E k \in 0..100 :
        /\ k = 0 \/ 10000 * (2 * k - 1) * (2 * k - 1) <= 72900 * n
        /\ 72900 * n < 10000 * (2 * k + 1) * (2 * k + 1)
        /\ r = IF k < 12 THEN 12 ELSE IF k > 80 THEN 80 ELSE k

\* C27: the grid of a surface has (r + 1) x (r + 1) points for r =
\* clamp(round(sqrt(samples) * 1.35), 12, 80); a grid point is undefined when
\* z is null, not finite, beyond 1e7 in size or outside [zMin, zMax]; every
\* painted face has the 4 defined corners of a cell and every painted edge of
\* the wireframe joins 2 defined neighbours.
C27_MeshDefined ==
    /\ \A k \in Meshed :
          /\ \E r \in 12..80 :
                /\ ResolutionFor(frame3D.expressions[k].samples.p, r)
                /\ DOMAIN PaintedGrid(k) = 0..r
                /\ \A yi \in 0..r : DOMAIN PaintedGrid(k)[yi] = 0..r
                /\ GridAsValues(frame3D.expressions[k].evaluator[1], PaintedGrid(k), r,
                                MeshLow(k, "x"), MeshHigh(k, "x"),
                                MeshLow(k, "y"), MeshHigh(k, "y"))
    /\ \A c \in 1..Len(PaintedCalls) :
          /\ PaintedCalls[c].op = "fill" =>
                \E k \in Meshed : CellOf(PaintedGrid(k), PaintedCalls[c].item.corners)
          /\ PaintedCalls[c].op = "stroke" /\ PaintedCalls[c].item.style.color \notin FrameColors =>
                \E k \in Meshed : EdgeOf(PaintedGrid(k), PaintedCalls[c].item.ends)

\* a frame is painted with a face and an edge of a mesh whose grid has an
\* undefined point
C27_Witness ==
    /\ \E c \in 1..Len(PaintedCalls) : PaintedCalls[c].op = "fill"
    /\ \E c \in 1..Len(PaintedCalls) :
          PaintedCalls[c].op = "stroke" /\ PaintedCalls[c].item.style.color \notin FrameColors
    /\ \E k \in Meshed : \E yi \in DOMAIN PaintedGrid(k) : \E xi \in DOMAIN PaintedGrid(k) :
          PaintedGrid(k)[yi][xi] = Null

\* the bound to use for a typed text: the number it parses to when that is
\* finite, the bound of the viewport otherwise
DeclaredOr(text, fallback) ==
    IF parseFloat(text).cls \in {"NaN", "Infinity", "-Infinity"} THEN fallback
    ELSE parseFloat(text)

\* min and max are what the claim says for the bounds low and high in use
Coerced(low, high, min, max) ==
    /\ IF AtMost(high, low)
       THEN min = MathMin(low, high) /\ max = Plus(MathMax(low, high), Rat(1, 1000000))
       ELSE min = low /\ max = high
    /\ Less(min, max)

\* C28: each of the two parsers uses the viewport bound for a typed bound
\* that does not parse to a finite number; when the max in use is at most the
\* min in use it returns the lesser of the two and the greater plus 1e-6; and
\* the min it returns is less than the max it returns.
C28_AsStated ==
    /\ domains.curve # Null =>
          Coerced(DeclaredOr(domains.typed[1], domains.view.xMin),
                  DeclaredOr(domains.typed[2], domains.view.xMax),
                  domains.curve[1].xMin, domains.curve[1].xMax)
    /\ domains.surface # Null =>
          Coerced(DeclaredOr(domains.typed[1], domains.view.xMin),
                  DeclaredOr(domains.typed[2], domains.view.xMax),
                  domains.surface[1].min, domains.surface[1].max)

\* the viewport at the last mouse-down moved by the sum of the deltas
\* reported since
DraggedFrom(down, total) ==
    IF drag.page = "2d"
    THEN clampViewport(panByPixels(down, Whole(total.x), Whole(total.y),
                                   CanvasSide, CanvasSide))
    ELSE clampViewport3D(rotateViewport3D(down, Rat(9 * total.x, 1000),
                                          Rat(0 - 9 * total.y, 1000)))

\* C29: in every interleaving of mouse moves with re-renders of the canvas,
\* the viewport of the App is the viewport at mouse-down panned (2D) or
\* rotated (3D) by the sum of the deltas of all the mouse moves handled
\* since, also when two moves are handled before the canvas re-rendered;
\* mouse moves outside a drag leave the viewport alone.
C29_AsStated ==
    (IF drag.page = "2d" THEN viewport2D ELSE viewport3D) = DraggedFrom(drag.down, drag.total)

\* the ids of a list are pairwise distinct
DistinctIds(rows) == \A i, j \in 1..Len(rows) : rows[i].id = rows[j].id => i = j

\* next is prev with the entries at index and index + 1 exchanged
SwappedAt(prev, next, index) ==
    /\ Len(next) = Len(prev)
    /\ next[index] = prev[index + 1]
    /\ next[index + 1] = prev[index]
    /\ \A i \in 1..Len(prev) : i \notin {index, index + 1} => next[i] = prev[i]

\* what a move of the entry at index may make of prev
MoveSound(prev, next, index, direction) ==
    IF (index = 1 /\ direction = -1) \/ (index = Len(prev) /\ direction = 1)
    THEN next = prev
    ELSE SwappedAt(prev, next, IF direction = 1 THEN index ELSE index - 1)

ListSound(rows, remove(_, _), move(_, _, _)) ==
    /\ Len(rows) >= 1
    /\ DistinctIds(rows)
    /\ Len(rows) = 1 => \A i \in 1..Len(rows) : remove(rows, rows[i].id) = rows
    /\ \A i \in 1..Len(rows), direction \in {-1, 1} :
          MoveSound(rows, move(rows, rows[i].id, direction), i, direction)

\* C30: whatever was added, removed, moved, updated and loaded, each of the
\* two lists has an entry and pairwise distinct ids; removing from a list of
\* one entry and moving the first entry up or the last one down leave the
\* list as it is, and any other move exchanges two neighbours and nothing
\* else.
C30_ListsSound ==
    /\ ListSound(lists.expressions, removeExpression, moveExpression)
    /\ ListSound(lists.expressions3D, removeExpression3D, moveExpression3D)

\* a 2D list after two additions, two removals, a move and a press of the
\* ON/OFF button
C30_Witness ==
    /\ lists.page = "2d"
    /\ Len(lists.expressions) = 2
    /\ lists.expressions[1].id = ExpressionId(4)
    /\ lists.expressions[2].id = ExpressionId(1)
    /\ ~lists.expressions[2].visible

====
